---- MODULE Spec2Model ----
(***************************************************************************)
(* Model of the business-contact scraper: the request surface (api.py),    *)
(* the run operations of BusinessScraperService (services.py) and the      *)
(* three connectors GoogleMapsScraper (scraper.py), DuckDuckGoScraper      *)
(* (duckduckgo_scraper.py) and HSCTVNScraper (hsctvn_scraper.py).          *)
(*                                                                         *)
(* One behaviour is one request: Init draws the operation and its          *)
(* arguments, the actions follow the code of the operation step by step,   *)
(* and everything the browser or the database answers (page contents,      *)
(* timeouts, failures) is drawn with \E at the step that asks for it.      *)
(***************************************************************************)
EXTENDS Integers, Sequences, FiniteSets, TLC

(***************************************************************************)
(* Bounds of the model.                                                    *)
(***************************************************************************)
MaxResultsBound == 2   \* search / listing: max_results is drawn from 0..MaxResultsBound
MaxUrls == 2           \* result URLs found on the search page
MaxPhones == 2         \* distinct phones found on one result page
MaxLi == 2             \* <li> entries on one registry listing page
MaxTiles == 5          \* tiles in the listing feed
MaxSave == 3           \* records handed to _save_businesses in SaveSpec
ListingMaxBound == 3   \* listing: the configured cap on max_results
MaxPieces == 3         \* pieces of the page text _extract_all_phones is run on
MaxLinks == 2          \* result elements on the search page in FnSpec
MaxEntries == 2        \* entries of the 'businesses' array the AI model answers with

(***************************************************************************)
(* Program constants.                                                      *)
(***************************************************************************)
companies_per_page == 12
LongNameLen == 10

None == "None"
\* None where the other values are integers (max_pages: Optional[int])
NoneInt == 0 - 1

(***************************************************************************)
(* Strings whose characters matter (business names) are sequences of       *)
(* one-character strings; str.lower() and str.strip() work on them.        *)
(***************************************************************************)
LowerChar(c) ==
  CASE c = "P" -> "p" [] c = "H" -> "h" [] c = "O" -> "o" [] c = "V" -> "v"
    [] c = "I" -> "i" [] c = "E" -> "e" [] c = "T" -> "t" [] c = "S" -> "s"
    [] c = "A" -> "a" [] c = "F" -> "f" [] c = "D" -> "d"
    [] OTHER -> c

Lower(s) == [i \in 1..Len(s) |-> LowerChar(s[i])]

RECURSIVE LStrip(_)
LStrip(s) == IF s # <<>> /\ Head(s) = " " THEN LStrip(Tail(s)) ELSE s

RECURSIVE RStrip(_)
RStrip(s) ==
  IF s # <<>> /\ s[Len(s)] = " " THEN RStrip(SubSeq(s, 1, Len(s) - 1)) ELSE s

Strip(s) == RStrip(LStrip(s))

Digit(n) == CASE n = 1 -> "1" [] n = 2 -> "2" [] n = 3 -> "3" [] OTHER -> "4"

TitleShort == <<"P","h","o"," ","V","i","e","t">>
TitleLong == <<"s","e","a","f","o","o","d"," ","s","h","o","p">>
TitleLongUpper == <<"S","E","A","F","O","O","D"," ","S","H","O","P">>

\* titles of search results: already stripped and never empty
\* (_search_duckduckgo stores title.strip(), or the url when that is empty)
Titles == {TitleShort, TitleLong, TitleLongUpper}

Phones == {"0901234567", "0912345678"}
Emails == {"info@pho.vn"}
Addresses == {"12 Duong Lang, Dong Da, Ha Noi"}

\* str(e) of the exceptions the browser driver raises; an exception built
\* without arguments (NotImplementedError(), TimeoutError()) has str(e) = ""
ExcMsgs == {"", "Timeout 30000ms exceeded"}

Min(a, b) == IF a <= b THEN a ELSE b

\* (n + d - 1) // d for n >= 0
CeilDiv(n, d) == (n + d - 1) \div d

\* sequences of distinct elements of S of length at most n
RECURSIVE DistinctSeqs(_, _)
DistinctSeqs(S, n) ==
  IF n = 0 THEN {<<>>}
  ELSE LET shorter == DistinctSeqs(S, n - 1)
       IN  shorter \cup
           {Append(q, x) : <<q, x>> \in
              {<<q, x>> \in shorter \X S :
                 Len(q) = n - 1 /\ \A i \in 1..Len(q) : q[i] # x}}

RECURSIVE SeqsUpTo(_, _)
SeqsUpTo(S, n) ==
  IF n = 0 THEN {<<>>}
  ELSE LET shorter == SeqsUpTo(S, n - 1)
       IN  shorter \cup
           {Append(q, x) : <<q, x>> \in {<<q, x>> \in shorter \X S : Len(q) = n - 1}}

\* None where the other values are records (Optional[Dict])
NoneDict == [none |-> TRUE]

Business(name, phone, email, address, tax_id, source) ==
  [name |-> name, phone |-> phone, email |-> email, address |-> address,
   tax_id |-> tax_id, source |-> source]

(***************************************************************************)
(* What the environment hands to the code.                                 *)
(***************************************************************************)
\* what _extract_all_phones / _extract_all_emails / _extract_all_addresses
\* find in the content of one result page (each list is already deduplicated)
\* A page without phones comes with every combination of email and address,
\* a page with phones with both or neither.
PageContents ==
  {p \in [phones : DistinctSeqs(Phones, MaxPhones),
          emails : SeqsUpTo(Emails, 1),
          addresses : SeqsUpTo(Addresses, 1)] :
     p.phones # <<>> => Len(p.emails) = Len(p.addresses)}

\* no result page has been read yet
NoContent == [phones |-> <<>>, emails |-> <<>>, addresses |-> <<>>, none |-> TRUE]

\* page.goto / page.content raised for the result page
PageError == [phones |-> <<>>, emails |-> <<>>, addresses |-> <<>>, error |-> TRUE]

Netloc == <<"p","h","o",".","v","n">>

\* what follows "Địa chỉ:" on a detail page: the text and the blanks after
\* it on the same line; no such line, 20 characters, 20 characters and a
\* blank, 21 characters
NoDetailAddress == [text |-> "", pad |-> 0]
DetailAddresses ==
  { NoDetailAddress,
    [text |-> "12 Lang, Dong Da, HN", pad |-> 0],
    [text |-> "12 Lang, Dong Da, HN", pad |-> 1],
    [text |-> "12 Lang, Dong Da, HNo", pad |-> 0] }

\* one <li> of a registry listing page and the detail page behind its link
\* (fields the code does not get to read are left at their defaults: the
\* list address of an entry without name or tax id, the address line of a
\* detail page that is not opened)
LiInputs ==
  { li \in [hasName : BOOLEAN, hasTax : BOOLEAN, hasUrl : BOOLEAN,
            detail : {"newpage_error", "goto_error", "no_phone", "phone"},
            laddr : {None, "Ha Noi"}, daddr : DetailAddresses] :
      /\ li.laddr # None => li.hasName /\ li.hasTax
      /\ li.daddr # NoDetailAddress =>
           li.hasName /\ li.hasTax /\ li.hasUrl /\ li.detail = "phone" }

\* the entries the page loop of Spec is run on: every shape of entry and
\* every outcome of the detail page, the address lines left out
LiShapes ==
  {li \in LiInputs : li.laddr = None /\ li.daddr = NoDetailAddress}

\* a well-formed <li> whose detail page shows a phone
FullLi ==
  [hasName |-> TRUE, hasTax |-> TRUE, hasUrl |-> TRUE, detail |-> "phone",
   laddr |-> None, daddr |-> NoDetailAddress]

\* number of <li> on a listing page: a few entries of any shape, or a full
\* page (companies_per_page entries, or one more) of well-formed entries
PageSizes == (0..MaxLi) \cup {companies_per_page, companies_per_page + 1}

CompanyName == <<"C","o","n","g"," ","t","y"," ","A">>

PlaceholderName == <<"R","e","s","u","l","t","s">>

\* one tile of the listing feed and the detail panel its click opens
TileInputs ==
  [kind : {"nolink", "noaria", "sponsored", "click_error", "noname", "details"},
   name : {TitleShort, TitleLong, TitleLongUpper, PlaceholderName},
   phone : {None, "0901234567"}]

\* payload.max_results of the three requests
ListingMaxResults == 0..(ListingMaxBound + 1)
SearchMaxResults == (0..MaxResultsBound) \cup {21}
RegistryMaxResults == {0, 1, 13, 100}
\* payload.max_pages of the registry request (Optional[int])
RegistryMaxPages == {NoneInt, 0, 2}
\* the count _get_total_companies reads from the heading (0: not found)
TotalChoices == {0, 5, 30}

\* settings.MAX_RESULTS_PER_SEARCH, read by GoogleMapsScraper.__init__
MAX_RESULTS_PER_SEARCH == ListingMaxBound

VARIABLES
  op,              \* the run operation requested: "listing", "search", "registry"
  pc,              \* position of the request in the code
  payload_max,     \* payload.max_results
  max_results,     \* the max_results the connector works with
  max_pages,       \* payload.max_pages (registry), NoneInt when absent
  q_status,        \* SearchQuery.status of the run's row, "none" before the row exists
  q_total,         \* SearchQuery.total_results
  q_error,         \* SearchQuery.error_message
  saved_count,     \* _save_businesses' saved_count: Business rows persisted for the run
  exc,             \* str(e) of the exception in flight, None when there is none
  ret,             \* businesses_data: the list the connector returned
  response,        \* what the endpoint answers
  businesses,      \* the connector's accumulating list (businesses / companies)
  seen_phones,     \* _scrape_websites' seen_phones
  seen_names,      \* seen_names of _scrape_websites / _extract_businesses
  n_items,         \* number of result URLs / feed tiles to iterate
  idx,             \* index of the connector's item loop
  extracted,       \* extracted_businesses of the current result page
  content,         \* all_phones, all_emails, all_addresses of that page
  j,               \* index of the inner loop over extracted
  total_companies, \* registry: total read from the first page
  pages_needed,    \* registry: pages_needed
  page_num,        \* registry: page_num of the page being scraped
  li_left,         \* registry: <li> elements of the current page not yet parsed
  li_uniform,      \* registry: the current page is one of the full, well-formed pages
  hs_playwright,   \* HSCTVNScraper.playwright
  hs_browser,      \* HSCTVNScraper.browser
  hs_context,      \* HSCTVNScraper.context
  fn,              \* FnSpec: the function that is called on its own
  fn_arg,          \* FnSpec: its argument
  fn_out,          \* FnSpec: what it returned
  fn_pc,           \* FnSpec: "call" before and "returned" after the call
  ai_calls,        \* history: calls of the GeminiService extraction methods
  hs_handles,      \* history: "none", "open" or "closed" per handle of the registry setup
  scrolls,         \* listing: calls of _scroll_feed so far
  pages_fetched,   \* history: registry listing pages navigated to
  save_i,          \* _save_businesses: index of the record the loop is at
  saved,           \* Business rows created for the run, in creation order
  save_failed,     \* history: indices of the records whose create raised
  c_op,            \* ConcSpec: the operation the concurrent runs execute
  c_pc,            \* ConcSpec: position of each run in the connector's code
  c_result,        \* ConcSpec: "running", "raising", "completed" or "failed" per run
  dd_browser,      \* DuckDuckGoScraper.browser of the shared connector
  dd_context,      \* DuckDuckGoScraper.context of the shared connector
  open_browsers,   \* browsers launched and not closed
  open_contexts,   \* contexts created and not closed
  ctx_browser,     \* the browser each context was created in
  c_pages,         \* history: per run, the contexts it opened pages in
  c_closed,        \* history: per run, the browsers it closed
  c_seen_phones,   \* ConcSpec: per run, seen_phones of its _scrape_websites call
  c_seen_names,    \* ConcSpec: per run, seen_names of its _scrape_websites call
  c_found,         \* history: per run, the records extracted from its result page
  c_admitted,      \* ConcSpec: per run, businesses of its _scrape_websites call
  ev               \* history: what the last step did

vars ==
  <<op, pc, payload_max, max_results, max_pages, q_status, q_total, q_error,
    saved_count, exc, ret, response, businesses, seen_phones, seen_names,
    n_items, idx, extracted, content, j, total_companies, pages_needed, page_num,
    li_left, li_uniform, hs_playwright, hs_browser, hs_context, hs_handles,
    fn, fn_arg, fn_out, fn_pc, ai_calls, scrolls,
    pages_fetched, save_i, saved, save_failed, c_op, c_pc, c_result,
    dd_browser, dd_context, open_browsers, open_contexts, ctx_browser,
    c_pages, c_closed, c_seen_phones, c_seen_names, c_found, c_admitted, ev>>

svcVars == <<q_status, q_total, q_error, saved_count, response>>
inputVars == <<op, payload_max, max_pages>>
searchVars == <<seen_phones, extracted, content, j>>
regVars ==
  <<total_companies, pages_needed, page_num, li_left, li_uniform, pages_fetched>>
hsVars == <<hs_playwright, hs_browser, hs_context>>
handleVars == <<hs_handles>>
fnVars == <<fn, fn_arg, fn_out, fn_pc, ai_calls>>
mapsVars == <<scrolls>>
saveVars == <<save_i, saved, save_failed>>
dedupVars == <<c_seen_phones, c_seen_names, c_found, c_admitted>>
concVars ==
  <<c_op, c_pc, c_result, dd_browser, dd_context, open_browsers,
    open_contexts, ctx_browser, c_pages, c_closed, dedupVars>>

\* the handles _setup_browser acquires: the driver, the browser, the context
Handles == {"playwright", "browser", "context"}
NoHandles == [h \in Handles |-> "none"]

\* the requests the service handles at the same time in ConcSpec
Runs == {1, 2}

\* the browser a run launches, the context it creates, the driver it starts
BrowserOf(r) == "b" \o Digit(r)
ContextOf(r) == "c" \o Digit(r)
DriverOf(r) == "p" \o Digit(r)

\* no function is called on its own: the state of the FnSpec variables in
\* the other specifications
FnIdle ==
  /\ fn = "none"
  /\ fn_arg = NoneDict
  /\ fn_out = NoneDict
  /\ fn_pc = "idle"
  /\ ai_calls = 0

\* no concurrent runs: the state of the ConcSpec variables in Spec and SaveSpec
ConcIdle ==
  /\ c_op = "none"
  /\ c_pc = [r \in Runs |-> "idle"]
  /\ c_result = [r \in Runs |-> "running"]
  /\ dd_browser = None
  /\ dd_context = None
  /\ open_browsers = {}
  /\ open_contexts = {}
  /\ ctx_browser = [r \in Runs |-> None]
  /\ c_pages = [r \in Runs |-> {}]
  /\ c_closed = [r \in Runs |-> {}]
  /\ c_seen_phones = [r \in Runs |-> {}]
  /\ c_seen_names = [r \in Runs |-> {}]
  /\ c_found = [r \in Runs |-> <<>>]
  /\ c_admitted = [r \in Runs |-> <<>>]

Init ==
  /\ op \in {"listing", "search", "registry"}
  /\ pc = "request"
  /\ payload_max \in (CASE op = "listing" -> ListingMaxResults
                        [] op = "search" -> SearchMaxResults
                        [] OTHER -> RegistryMaxResults)
  /\ max_results = payload_max
  /\ max_pages \in (IF op = "registry" THEN RegistryMaxPages ELSE {NoneInt})
  /\ q_status = "none"
  /\ q_total = 0
  /\ q_error = None
  /\ saved_count = 0
  /\ exc = None
  /\ ret = <<>>
  /\ response = [code |-> 0]
  /\ businesses = <<>>
  /\ seen_phones = {}
  /\ seen_names = {}
  /\ n_items = 0
  /\ idx = 0
  /\ extracted = <<>>
  /\ content = NoContent
  /\ j = 1
  /\ total_companies = 0
  /\ pages_needed = 0
  /\ page_num = 0
  /\ li_left = 0
  /\ li_uniform = FALSE
  /\ hs_playwright = None
  /\ hs_browser = None
  /\ hs_context = None
  /\ hs_handles = NoHandles
  /\ FnIdle
  /\ scrolls = 0
  /\ pages_fetched = 0
  /\ save_i = 1
  /\ saved = <<>>
  /\ save_failed = {}
  /\ ConcIdle
  /\ ev = "init"

(***************************************************************************)
(* Request surface and run operations (api.py, services.py).               *)
(***************************************************************************)
\* mutant of CreatedStatus: the row is created with the model's default
CreatedStatus_Default == "pending"

\* the status SearchQuery.objects.create(...) is called with
CreatedStatus == "processing"

\* mutant of ApiMaxResults: a value above 20 is cut down to 20
ApiMaxResults_Clamp(o, m) == IF o = "search" /\ m > 20 THEN 20 ELSE m

\* the max_results the endpoint passes on: scrape_duckduckgo replaces a
\* value above 20 by 10, the other two endpoints pass the payload's value
ApiMaxResults(o, m) == IF o = "search" /\ m > 20 THEN 10 ELSE m

\* lines 150-158 of scrape_hsctvn_and_save, 42-47 and 96-101 of the others:
\* the registry operation parses the date before anything else, outside its
\* try; then the run's row is created
SvcStart ==
  /\ pc = "request"
  /\ \E date_ok \in (IF op = "registry" THEN BOOLEAN ELSE {TRUE}) :
       IF date_ok
       THEN /\ q_status' = CreatedStatus
            /\ pc' = op \o "_setup"
            /\ ev' = "create_row"
            /\ UNCHANGED exc
       ELSE /\ exc' = "time data does not match format '%Y-%m-%d'"
            /\ pc' = "api_except"
            /\ ev' = "raise"
            /\ UNCHANGED q_status
  /\ max_results' = ApiMaxResults(op, payload_max)
  /\ UNCHANGED <<fnVars, handleVars, concVars, saveVars, inputVars, mapsVars, q_total, q_error, saved_count, ret,
                 response, businesses, seen_names, n_items, idx, searchVars,
                 regVars, hsVars>>

\* _save_businesses: every record is created in turn; a create that fails is
\* logged and skipped, so any number of the records may end up persisted
SvcSave ==
  /\ pc = "svc_save"
  /\ \E created \in 0..Len(ret) : saved_count' = created
  /\ pc' = "svc_saved"
  /\ ev' = "save"
  /\ UNCHANGED <<fnVars, handleVars, concVars, saveVars, inputVars, mapsVars, max_results, q_status, q_total, q_error,
                 exc, ret, response, businesses, seen_names, n_items, idx,
                 searchVars, regVars, hsVars>>

\* after _save_businesses: total_results = saved_count, status = 'completed',
\* save()
SvcComplete ==
  /\ pc = "svc_saved"
  /\ q_total' = saved_count
  /\ q_status' = "completed"
  /\ pc' = "api_ok"
  /\ ev' = "complete"
  /\ UNCHANGED <<fnVars, handleVars, concVars, saveVars, inputVars, mapsVars, max_results, q_error, saved_count, exc, ret,
                 response, businesses, seen_names, n_items, idx, searchVars,
                 regVars, hsVars>>

\* the except branch of the run operation: status = 'failed',
\* error_message = str(e), save(), raise
SvcFail ==
  /\ pc = "svc_except"
  /\ q_status' = "failed"
  /\ q_error' = exc
  /\ pc' = "api_except"
  /\ ev' = "fail"
  /\ UNCHANGED <<fnVars, handleVars, concVars, saveVars, inputVars, mapsVars, max_results, q_total, saved_count, exc, ret,
                 response, businesses, seen_names, n_items, idx, searchVars,
                 regVars, hsVars>>

\* the endpoint's return 200, {...}
ApiOk ==
  /\ pc = "api_ok"
  /\ response' = [code |-> 200, status |-> q_status, total_results |-> q_total]
  /\ pc' = "done"
  /\ ev' = "respond"
  /\ UNCHANGED <<fnVars, handleVars, concVars, saveVars, inputVars, mapsVars, max_results, q_status, q_total, q_error, saved_count,
                 exc, ret, businesses, seen_names, n_items, idx,
                 searchVars, regVars, hsVars>>

\* the endpoint's except branch: return 500, {"error", "detail": str(e)}
ApiExcept ==
  /\ pc = "api_except"
  /\ response' = [code |-> 500, error |-> "Internal Server Error", detail |-> exc]
  /\ pc' = "done"
  /\ ev' = "respond"
  /\ UNCHANGED <<fnVars, handleVars, concVars, saveVars, inputVars, mapsVars, max_results, q_status, q_total, q_error, saved_count,
                 exc, ret, businesses, seen_names, n_items, idx,
                 searchVars, regVars, hsVars>>

(***************************************************************************)
(* Search-Result connector (duckduckgo_scraper.py).                        *)
(***************************************************************************)
\* mutant of PhoneRecords: every record is paired with the first email and
\* the first address
PhoneRecords_FirstPair(page, title) ==
  [i \in 1..Len(page.phones) |->
     LET name == IF Len(page.phones) = 1 THEN title
                 ELSE title \o <<" ", "#", Digit(i)>>
     IN  Business(IF name # <<>> THEN name ELSE Netloc,
                  page.phones[i],
                  IF page.emails # <<>> THEN page.emails[1] ELSE None,
                  IF page.addresses # <<>> THEN page.addresses[1] ELSE None,
                  None, "duckduckgo")]

\* _extract_all_from_website, lines 573-597: one record per phone, paired
\* with the email and the address at the same index
PhoneRecords(page, title) ==
  [i \in 1..Len(page.phones) |->
     LET email == IF i <= Len(page.emails) THEN page.emails[i] ELSE None
         address == IF i <= Len(page.addresses) THEN page.addresses[i] ELSE None
         name == IF Len(page.phones) = 1 THEN title
                 ELSE title \o <<" ", "#", Digit(i)>>
     IN  Business(IF name # <<>> THEN name ELSE Netloc,
                  page.phones[i], email, address, None, "duckduckgo")]

\* mutant of FallbackRecords: a page without phones gives no record
FallbackRecords_None(page, title) == <<>>

\* _extract_all_from_website, lines 599-613: without phones, one record
\* from the first email and the first address when there is either
FallbackRecords(page, title) ==
  IF page.emails # <<>> \/ page.addresses # <<>>
  THEN <<Business(IF title # <<>> THEN title ELSE Netloc,
                  None,
                  IF page.emails # <<>> THEN page.emails[1] ELSE None,
                  IF page.addresses # <<>> THEN page.addresses[1] ELSE None,
                  None, "duckduckgo")>>
  ELSE <<>>

\* the records _extract_all_from_website builds from what the extractors
\* found on the page (lines 572-615)
ExtractAllFromWebsite(page, title) ==
  IF page.phones # <<>> THEN PhoneRecords(page, title)
  ELSE FallbackRecords(page, title)

\* name = business.get('name', '').lower().strip()
DedupName(b) == Strip(Lower(b.name))

\* the two "continue" tests of _scrape_websites (lines 328 and 333)
IsDuplicate(phone, name, sp, sn) ==
  \/ phone # None /\ phone # "" /\ phone \in sp
  \/ name # <<>> /\ name \in sn /\ Len(name) > LongNameLen

\* mutant of AddPhone: the phone of an accepted record is not remembered
AddPhone_Forget(phone, sp) == sp

\* lines 339-342: the keys inserted on acceptance
AddPhone(phone, sp) == IF phone # None /\ phone # "" THEN sp \cup {phone} ELSE sp
AddName(name, sn) ==
  IF name # <<>> /\ Len(name) > LongNameLen THEN sn \cup {name} ELSE sn

\* scrape, lines 40-82: launch, new_context, add_init_script; none of them is
\* inside the try, so a failure leaves scrape as an exception
DdgSetup ==
  /\ pc = "search_setup"
  /\ \/ /\ pc' = "ddg_search"
        /\ ev' = "setup"
        /\ UNCHANGED exc
     \/ \E m \in ExcMsgs :
          /\ exc' = m
          /\ pc' = "svc_except"
          /\ ev' = "setup_failed"
  /\ UNCHANGED <<fnVars, handleVars, concVars, saveVars, inputVars, mapsVars, max_results, svcVars, ret, businesses, seen_names,
                 n_items, idx, searchVars, regVars, hsVars>>

\* scrape, lines 84-101 with _search_duckduckgo: at most max_results URLs
\* come back; every failure inside comes back as no URL; without URLs scrape
\* returns []
DdgSearch ==
  /\ pc = "ddg_search"
  /\ \E n \in 0..Min(MaxUrls, max_results) :
       /\ n_items' = n
       /\ pc' = IF n = 0 THEN "svc_save" ELSE "ddg_loop"
  /\ ret' = <<>>
  /\ businesses' = <<>>
  /\ seen_phones' = {}
  /\ seen_names' = {}
  /\ idx' = 0
  /\ ev' = "fetch_search"
  /\ UNCHANGED <<fnVars, handleVars, concVars, saveVars, inputVars, mapsVars, max_results, svcVars, exc, extracted, content,
                 j, regVars, hsVars>>

\* _scrape_websites, the head of the outer loop and the fetch of one result
\* page (lines 303-316, 346-351); the loop's end returns businesses
DdgScrapeNext ==
  /\ pc = "ddg_loop"
  /\ IF idx >= n_items \/ Len(businesses) >= max_results
     THEN /\ ret' = businesses
          /\ pc' = "svc_save"
          /\ ev' = "return"
          /\ UNCHANGED <<idx, extracted, content, j>>
     ELSE \E title \in Titles, page \in PageContents \cup {PageError} :
            LET found == IF page = PageError THEN <<>>
                         ELSE ExtractAllFromWebsite(page, title)
            IN  /\ ev' = IF page = PageError THEN "fetch_result_failed"
                          ELSE "fetch_result"
                /\ extracted' = found
                /\ content' = page
                /\ j' = 1
                /\ IF found = <<>>
                   THEN idx' = idx + 1 /\ pc' = "ddg_loop"
                   ELSE idx' = idx /\ pc' = "ddg_admit"
                /\ UNCHANGED ret
  /\ UNCHANGED <<fnVars, handleVars, concVars, saveVars, inputVars, mapsVars, max_results, svcVars, exc, businesses, seen_phones,
                 seen_names, n_items, regVars, hsVars>>

\* _scrape_websites, one iteration of the inner loop (lines 318-344)
DdgAdmit ==
  /\ pc = "ddg_admit"
  /\ LET business == extracted[j]
         phone == business.phone
         name == DedupName(business)
         last == j = Len(extracted)
     IN  IF Len(businesses) >= max_results
         THEN /\ ev' = "break"
              /\ idx' = idx + 1
              /\ pc' = "ddg_loop"
              /\ UNCHANGED <<businesses, seen_phones, seen_names, j>>
         ELSE /\ IF IsDuplicate(phone, name, seen_phones, seen_names)
                 THEN /\ ev' = "reject"
                      /\ UNCHANGED <<businesses, seen_phones, seen_names>>
                 ELSE /\ ev' = "admit"
                      /\ businesses' = Append(businesses, business)
                      /\ seen_phones' = AddPhone(phone, seen_phones)
                      /\ seen_names' = AddName(name, seen_names)
              /\ IF last
                 THEN idx' = idx + 1 /\ pc' = "ddg_loop" /\ j' = j
                 ELSE idx' = idx /\ pc' = "ddg_admit" /\ j' = j + 1
  /\ UNCHANGED <<fnVars, handleVars, concVars, saveVars, inputVars, mapsVars, max_results, svcVars, exc, ret, n_items, extracted,
                 content, regVars, hsVars>>

(***************************************************************************)
(* Registry connector (hsctvn_scraper.py).                                 *)
(***************************************************************************)
\* lines 195-201: total_pages, the max_pages cap ("if max_pages:") and
\* pages_needed
TotalPages(total, mp) ==
  LET total_pages == CeilDiv(total, companies_per_page)
  IN  IF mp # NoneInt /\ mp # 0 THEN Min(total_pages, mp) ELSE total_pages

PagesNeeded(total, mr, mp) ==
  Min(TotalPages(total, mp), CeilDiv(mr, companies_per_page))

\* the name and the tax id _extract_company_from_li reads from the <li>
\* (lines 366-403): the stripped text of h3 > a, the digits after the label
LiName(li) == IF li.hasName THEN CompanyName ELSE <<>>
LiTaxId(li) == IF li.hasTax THEN "0109876543" ELSE None

\* mutant of MissingRequired: no entry is dropped
MissingRequired_Never(name, tax_id) == FALSE

\* "if not name: return None" (line 376) and
\* "if not name or not tax_id: return None" (line 405)
MissingRequired(name, tax_id) == name = <<>> \/ tax_id = None

\* _scrape_detail_page, line 495: the pattern ([^\n]{20,300}) needs at least
\* 20 characters on the line, blanks included
AddressMatch(d) == Len(d.text) + d.pad >= 20

\* mutant of UseDetailAddress: any address the pattern matched is taken
UseDetailAddress_Always(full_address) == TRUE

\* lines 497-499: full_address is the stripped match, kept
\* `if len(full_address) > 20`
UseDetailAddress(full_address) == Len(full_address) > 20

\* detail_data of _scrape_detail_page as a set of <<key, value>> pairs: empty
\* when the page shows no phone, and for the None that a failed goto gives
DetailData(li) ==
  (IF li.detail = "phone" THEN {<<"phone", "0901234567">>} ELSE {})
  \cup (IF li.detail \in {"phone", "no_phone"} /\ AddressMatch(li.daddr)
           /\ UseDetailAddress(li.daddr.text)
        THEN {<<"address", li.daddr.text>>} ELSE {})

\* dict.update, on the keys the records of the model carry
DictUpdate(d, upd) ==
  [k \in DOMAIN d |->
     IF \E p \in upd : p[1] = k THEN (CHOOSE p \in upd : p[1] = k)[2] ELSE d[k]]

\* does _extract_company_from_li reach _scrape_detail_page for this <li>
OpensDetail(li) == li.hasName /\ li.hasTax /\ li.hasUrl

\* new_page for the detail page (line 453) is outside the try of
\* _scrape_detail_page: its error reaches the handler of
\* _extract_company_from_li
ItemRaises(li) == OpensDetail(li) /\ li.detail = "newpage_error"

\* mutant of ExtractCompanyFromLi: an entry whose extraction raised still
\* gives its record
ExtractCompanyFromLi_NoCatch(li) ==
  IF MissingRequired(LiName(li), LiTaxId(li)) THEN NoneDict
  ELSE Business(LiName(li), None, None, li.laddr, LiTaxId(li), "hsctvn")

\* _extract_company_from_li with _scrape_detail_page: None or the record.
\* An <li> without name or tax id gives None; so does an error raised by
\* new_page for the detail page.  Otherwise the fields of the detail page
\* are merged into the record built from the <li>.
ExtractCompanyFromLi(li) ==
  IF MissingRequired(LiName(li), LiTaxId(li)) THEN NoneDict
  ELSE IF ItemRaises(li) THEN NoneDict
  ELSE LET company_data ==
             Business(LiName(li), None, None, li.laddr, LiTaxId(li), "hsctvn")
       IN  IF li.hasUrl THEN DictUpdate(company_data, DetailData(li))
           ELSE company_data

\* mutant of Trim: the list is returned untrimmed
Trim_Keep(list, mr) == list

\* companies[:max_results]
Trim(list, mr) == SubSeq(list, 1, Min(mr, Len(list)))

\* the calls of _setup_browser's try block, in order (lines 60, 64, 75, 82)
SetupSteps == {"start", "launch", "new_context", "add_init_script"}

\* the handles the fields hold when the given call raises
AcquiredBefore(step) ==
  CASE step = "start" -> {}
    [] step = "launch" -> {"playwright"}
    [] step = "new_context" -> {"playwright", "browser"}
    [] OTHER -> Handles

\* mutant of CleanupCloses: the driver is not stopped
CleanupCloses_NoStop(held) == held \ {"playwright"}

\* the except branch of _setup_browser (lines 92-100): every field that is
\* set is closed (context, browser) or stopped (driver) and reset to None
CleanupCloses(held) == held

\* scrape, lines 151-161 with _setup_browser: self.browser is None when a
\* request starts; a failure at any step closes what was acquired, resets
\* the three fields and raises RuntimeError("Browser setup failed: ...")
RegSetup ==
  /\ pc = "registry_setup"
  /\ \/ /\ hs_playwright' = "open"
        /\ hs_browser' = "open"
        /\ hs_context' = "open"
        /\ hs_handles' = [h \in Handles |-> "open"]
        /\ pc' = "reg_newpage"
        /\ ev' = "setup"
        /\ UNCHANGED exc
     \/ \E step \in SetupSteps, m \in ExcMsgs :
          LET held == AcquiredBefore(step)
              left == held \ CleanupCloses(held)
          IN  /\ hs_playwright' = IF "playwright" \in left THEN "open" ELSE None
              /\ hs_browser' = IF "browser" \in left THEN "open" ELSE None
              /\ hs_context' = IF "context" \in left THEN "open" ELSE None
              /\ hs_handles' = [h \in Handles |->
                                  IF h \in left THEN "open"
                                  ELSE IF h \in held THEN "closed" ELSE "none"]
              /\ exc' = "Browser setup failed: " \o m
              /\ pc' = "svc_except"
              /\ ev' = "setup_failed"
  /\ UNCHANGED <<fnVars, concVars, saveVars, inputVars, mapsVars, max_results, svcVars, ret, businesses, seen_names,
                 n_items, idx, searchVars, regVars>>

\* scrape, lines 168-169: the page of the run is opened before the try, so
\* a failure here skips the finally block
RegNewPage ==
  /\ pc = "reg_newpage"
  /\ businesses' = <<>>
  /\ \/ /\ pc' = "reg_first"
        /\ ev' = "new_page"
        /\ UNCHANGED exc
     \/ \E m \in ExcMsgs :
          /\ exc' = m
          /\ pc' = "svc_except"
          /\ ev' = "new_page_failed"
  /\ UNCHANGED <<fnVars, handleVars, concVars, saveVars, inputVars, mapsVars, max_results, svcVars, ret, seen_names, n_items,
                 idx, searchVars, regVars, hsVars>>

\* mutant of NoCompanies: a total of 0 is treated like any other total
NoCompanies_Never(total) == FALSE

\* scrape, lines 189-191: if total_companies == 0: return []
NoCompanies(total) == total = 0

\* scrape, lines 172-207 up to the query of _scrape_page (315-321): the
\* first listing page is loaded, the total is read, the page counts are
\* computed.  goto raising is re-raised after the finally block (237-240)
\* has closed the page and the browser.
RegFirstPage ==
  /\ pc = "reg_first"
  /\ pages_fetched' = pages_fetched + 1
  /\ \/ \E m \in ExcMsgs :
          /\ exc' = m
          /\ pc' = "svc_except"
          /\ ev' = "fetch_listing_failed"
          /\ UNCHANGED <<ret, total_companies, pages_needed, page_num, li_left,
                         li_uniform>>
     \/ \E total \in TotalChoices, n \in PageSizes :
          /\ total_companies' = total
          /\ ev' = "fetch_listing"
          /\ UNCHANGED exc
          /\ IF NoCompanies(total)
             THEN /\ ret' = <<>>
                  /\ pc' = "svc_save"
                  /\ UNCHANGED <<pages_needed, page_num, li_left, li_uniform>>
             ELSE /\ pages_needed' = PagesNeeded(total, max_results, max_pages)
                  /\ page_num' = 1
                  /\ li_left' = n
                  /\ li_uniform' = (n > MaxLi)
                  /\ pc' = "reg_items"
                  /\ UNCHANGED ret
  /\ hs_playwright' = IF pc' = "reg_items" THEN hs_playwright ELSE None
  /\ hs_browser' = IF pc' = "reg_items" THEN hs_browser ELSE None
  /\ hs_context' = IF pc' = "reg_items" THEN hs_context ELSE None
  /\ hs_handles' = IF pc' = "reg_items" THEN hs_handles
                   ELSE [h \in Handles |-> "closed"]
  /\ UNCHANGED <<fnVars, concVars, saveVars, inputVars, mapsVars, max_results, svcVars, businesses,
                 seen_names, n_items, idx, searchVars>>

\* _scrape_page, one iteration of its loop (lines 330-340) with
\* _extract_company_from_li; page_companies is appended to companies
RegItem ==
  /\ pc = "reg_items"
  /\ li_left > 0
  /\ \E li \in (IF li_uniform THEN {FullLi} ELSE LiShapes) :
       LET company_data == ExtractCompanyFromLi(li)
       IN  /\ businesses' = IF company_data = NoneDict THEN businesses
                            ELSE Append(businesses, company_data)
           /\ ev' = IF ItemRaises(li) THEN "fetch_detail_failed"
                    ELSE IF OpensDetail(li) THEN "fetch_detail" ELSE "parse_li"
  /\ li_left' = li_left - 1
  /\ UNCHANGED <<fnVars, handleVars, concVars, saveVars, inputVars, mapsVars, max_results, svcVars, exc, ret, pc,
                 seen_names, n_items, idx, searchVars, total_companies,
                 pages_needed, page_num, li_uniform, pages_fetched, hsVars>>

\* mutant of MorePages: the loop does not look at the records collected
MorePages_NoBreak(num, needed, count, mr) == num + 1 <= needed

\* does the page loop of scrape (lines 212-214) go on to another page
MorePages(num, needed, count, mr) == num + 1 <= needed /\ count < mr

\* scrape, lines 212-240: the next turn of the page loop, or its end with
\* the trim, the return and the finally block
RegNextPage ==
  /\ pc = "reg_items"
  /\ li_left = 0
  /\ IF ~MorePages(page_num, pages_needed, Len(businesses), max_results)
     THEN /\ ret' = Trim(businesses, max_results)
          /\ pc' = "svc_save"
          /\ ev' = "return"
          /\ UNCHANGED <<exc, page_num, li_left, li_uniform, pages_fetched>>
     ELSE /\ pages_fetched' = pages_fetched + 1
          /\ \/ \E m \in ExcMsgs :
                  /\ exc' = m
                  /\ pc' = "svc_except"
                  /\ ev' = "fetch_listing_failed"
                  /\ UNCHANGED <<ret, page_num, li_left, li_uniform>>
             \/ \E n \in PageSizes :
                  /\ page_num' = page_num + 1
                  /\ li_left' = n
                  /\ li_uniform' = (n > MaxLi)
                  /\ pc' = "reg_items"
                  /\ ev' = "fetch_listing"
                  /\ UNCHANGED <<exc, ret>>
  /\ hs_playwright' = IF pc' = "reg_items" THEN hs_playwright ELSE None
  /\ hs_browser' = IF pc' = "reg_items" THEN hs_browser ELSE None
  /\ hs_context' = IF pc' = "reg_items" THEN hs_context ELSE None
  /\ hs_handles' = IF pc' = "reg_items" THEN hs_handles
                   ELSE [h \in Handles |-> "closed"]
  /\ UNCHANGED <<fnVars, concVars, saveVars, inputVars, mapsVars, max_results, svcVars, businesses,
                 seen_names, n_items, idx, searchVars, total_companies,
                 pages_needed>>

(***************************************************************************)
(* Listing connector (scraper.py).                                         *)
(***************************************************************************)
\* what one turn of _extract_businesses' loop does with a tile:
\*   "skip"    one of the continue statements before the click
\*   "error"   the click or the extraction raised: except, continue
\*   "nodata"  _extract_details returned None
\*   "label"   the name is a UI label: continue
\*   "record"  a named record came back
TileOutcome(tile) ==
  CASE tile.kind \in {"nolink", "noaria", "sponsored"} -> "skip"
    [] tile.kind = "click_error" -> "error"
    [] tile.kind = "noname" -> "nodata"
    [] tile.kind = "details" /\ tile.name = PlaceholderName -> "label"
    [] OTHER -> "record"

TileRecord(tile) == Business(tile.name, tile.phone, None, None, None, "google_maps")

\* the loop turns that end in a continue never reach the scroll test at the
\* bottom of the loop body (lines 150-153)
ReachesScrollTest(tile) ==
  \/ TileOutcome(tile) = "nodata"
  \/ TileOutcome(tile) = "record"

\* search_businesses, lines 31-48: the configured cap, then launch,
\* new_context and new_page, all outside the try
MapsSetup ==
  /\ pc = "listing_setup"
  /\ max_results' = Min(max_results, MAX_RESULTS_PER_SEARCH)
  /\ \/ /\ pc' = "maps_goto"
        /\ ev' = "setup"
        /\ UNCHANGED exc
     \/ \E m \in ExcMsgs :
          /\ exc' = m
          /\ pc' = "svc_except"
          /\ ev' = "setup_failed"
  /\ UNCHANGED <<fnVars, handleVars, concVars, saveVars, inputVars, mapsVars, svcVars, ret, businesses, seen_names,
                 n_items, idx, searchVars, regVars, hsVars>>

\* search_businesses, lines 50-66, with the start of _extract_businesses
\* (71-99): goto raising is re-raised; without the feed the result is empty
MapsGoto ==
  /\ pc = "maps_goto"
  /\ businesses' = <<>>
  /\ seen_names' = {}
  /\ idx' = 0
  /\ \/ \E m \in ExcMsgs :
          /\ exc' = m
          /\ pc' = "svc_except"
          /\ ev' = "fetch_search_failed"
          /\ UNCHANGED <<ret, n_items, scrolls>>
     \/ /\ ret' = <<>>
        /\ pc' = "svc_save"
        /\ ev' = "no_feed"
        /\ UNCHANGED <<exc, n_items, scrolls>>
     \/ \E n \in 0..MaxTiles :
          /\ n_items' = n
          /\ scrolls' = scrolls + 1
          /\ pc' = "maps_items"
          /\ ev' = "fetch_search"
          /\ UNCHANGED <<exc, ret>>
  /\ UNCHANGED <<fnVars, handleVars, concVars, saveVars, inputVars, max_results, svcVars, searchVars, regVars, hsVars>>

\* _extract_businesses, one turn of the loop over business_items[:max_results * 2]
\* (lines 102-153), or the loop's end and the return
MapsItem ==
  /\ pc = "maps_items"
  /\ IF idx >= Min(n_items, max_results * 2) \/ Len(businesses) >= max_results
     THEN /\ ret' = businesses
          /\ pc' = "svc_save"
          /\ ev' = "return"
          /\ UNCHANGED <<businesses, seen_names, idx, scrolls>>
     ELSE \E tile \in TileInputs :
            LET fresh == TileOutcome(tile) = "record" /\ tile.name \notin seen_names
                after == IF fresh THEN Append(businesses, TileRecord(tile))
                         ELSE businesses
            IN  /\ businesses' = after
                /\ seen_names' = IF fresh THEN seen_names \cup {tile.name}
                                 ELSE seen_names
                /\ scrolls' = IF /\ ReachesScrollTest(tile)
                                 /\ (idx + 1) % 5 = 0
                                 /\ Len(after) < max_results
                              THEN scrolls + 1 ELSE scrolls
                /\ idx' = idx + 1
                /\ ev' = CASE TileOutcome(tile) = "skip" -> "skip_tile"
                           [] TileOutcome(tile) = "error" -> "open_tile_failed"
                           [] OTHER -> "open_tile"
                /\ UNCHANGED <<ret, pc>>
  /\ UNCHANGED <<fnVars, handleVars, concVars, saveVars, inputVars, max_results, svcVars, exc, n_items, searchVars,
                 regVars, hsVars>>

Next ==
  \/ SvcStart
  \/ SvcSave
  \/ SvcComplete
  \/ SvcFail
  \/ ApiOk
  \/ ApiExcept
  \/ DdgSetup
  \/ DdgSearch
  \/ DdgScrapeNext
  \/ DdgAdmit
  \/ RegSetup
  \/ RegNewPage
  \/ RegFirstPage
  \/ RegItem
  \/ RegNextPage
  \/ MapsSetup
  \/ MapsGoto
  \/ MapsItem

Spec == Init /\ [][Next]_vars

(***************************************************************************)
(* The save loop of _save_businesses record by record (services.py).       *)
(* Spec sums the loop up in the one step SvcSave and leaves save_i, saved  *)
(* and save_failed alone; SaveSpec starts where a connector has returned   *)
(* its list and follows the loop one record at a time.                     *)
(***************************************************************************)
SaveSource(o) ==
  CASE o = "listing" -> "google_maps" [] o = "search" -> "duckduckgo"
    [] OTHER -> "hsctvn"

\* records a connector may have returned
SaveRecordsOf(o) ==
  {Business(n, p, None, None, IF o = "registry" THEN "0109876543" ELSE None,
            SaveSource(o)) :
     n \in {TitleShort, TitleLong}, p \in {None, "0901234567"}}

\* the run operation is about to call _save_businesses (lines 55-58,
\* 109-112, 166-169)
SaveInit ==
  /\ op \in {"listing", "search", "registry"}
  /\ pc = "svc_save"
  /\ payload_max = MaxSave
  /\ max_results = MaxSave
  /\ max_pages = NoneInt
  /\ q_status = CreatedStatus
  /\ q_total = 0
  /\ q_error = None
  /\ saved_count = 0
  /\ exc = None
  /\ ret \in SeqsUpTo(SaveRecordsOf(op), MaxSave)
  /\ response = [code |-> 0]
  /\ businesses = ret
  /\ seen_phones = {}
  /\ seen_names = {}
  /\ n_items = 0
  /\ idx = 0
  /\ extracted = <<>>
  /\ content = NoContent
  /\ j = 1
  /\ total_companies = 0
  /\ pages_needed = 0
  /\ page_num = 0
  /\ li_left = 0
  /\ li_uniform = FALSE
  /\ hs_playwright = None
  /\ hs_browser = None
  /\ hs_context = None
  /\ hs_handles = NoHandles
  /\ FnIdle
  /\ scrolls = 0
  /\ pages_fetched = 0
  /\ save_i = 1
  /\ saved = <<>>
  /\ save_failed = {}
  /\ ConcIdle
  /\ ev = "return"

\* mutant of CountSaved: every record the loop went through is counted
CountSaved_Always(count, created) == count + 1

\* saved_count += 1 after a create that did not raise (line 236)
CountSaved(count, created) == IF created THEN count + 1 ELSE count

\* mutant of NextSaveIndex: a create that raises ends the loop
NextSaveIndex_Abort(i, n, created) == IF created THEN i + 1 ELSE n + 1

\* the for loop goes to the next record, also from the except branch
\* ("continue", lines 237-239)
NextSaveIndex(i, n, created) == i + 1

\* _save_businesses, one turn of the loop (lines 206-239):
\* Business.objects.create for the record, which may raise
SaveRecord ==
  /\ pc = "svc_save"
  /\ save_i <= Len(ret)
  /\ \E created \in BOOLEAN :
       /\ saved' = IF created THEN Append(saved, ret[save_i]) ELSE saved
       /\ saved_count' = CountSaved(saved_count, created)
       /\ save_failed' = IF created THEN save_failed ELSE save_failed \cup {save_i}
       /\ save_i' = NextSaveIndex(save_i, Len(ret), created)
       /\ ev' = IF created THEN "save_record" ELSE "save_failed"
  /\ UNCHANGED <<fnVars, handleVars, concVars, inputVars, mapsVars, max_results, q_status, q_total,
                 q_error, exc, ret, response, businesses, seen_names, n_items,
                 idx, searchVars, regVars, hsVars, pc>>

\* _save_businesses, the end of the loop: return saved_count (line 241)
SaveReturn ==
  /\ pc = "svc_save"
  /\ save_i > Len(ret)
  /\ pc' = "svc_saved"
  /\ ev' = "save"
  /\ UNCHANGED <<fnVars, handleVars, concVars, saveVars, inputVars, mapsVars, max_results, q_status, q_total,
                 q_error, saved_count, exc, ret, response, businesses,
                 seen_names, n_items, idx, searchVars, regVars, hsVars>>

SaveNext ==
  \/ SaveRecord
  \/ SaveReturn
  \/ SvcComplete
  \/ ApiOk

SaveSpec == SaveInit /\ [][SaveNext]_vars

(***************************************************************************)
(* Two requests for the same operation handled at the same time.  The      *)
(* endpoints are coroutines on the one module-level scraper_service        *)
(* (api.py line 22), whose connectors are created once (services.py lines  *)
(* 19-22): every await is a point where the other request may run, and     *)
(* self.browser / self.context / self.playwright of a connector are shared *)
(* by both.  ConcSpec follows the two runs from await to await.  Nothing   *)
(* fails on its own here: a call fails only when it is made on a browser   *)
(* or context that has been closed, or through a field that is None.       *)
(***************************************************************************)
\* the variables of the one-request specifications other than the handles
soloVars ==
  <<inputVars, handleVars, fnVars, mapsVars, saveVars, svcVars, searchVars, regVars, pc,
    max_results, exc, ret, businesses, seen_names, n_items, idx, ev>>
seqVars == <<soloVars, dedupVars>>

ConcInit ==
  /\ c_op \in {"search", "registry"}
  /\ c_pc = [r \in Runs |-> "start"]
  /\ c_result = [r \in Runs |-> "running"]
  /\ dd_browser = None
  /\ dd_context = None
  /\ open_browsers = {}
  /\ open_contexts = {}
  /\ ctx_browser = [r \in Runs |-> None]
  /\ c_pages = [r \in Runs |-> {}]
  /\ c_closed = [r \in Runs |-> {}]
  /\ c_seen_phones = [r \in Runs |-> {}]
  /\ c_seen_names = [r \in Runs |-> {}]
  /\ c_found = [r \in Runs |-> <<>>]
  /\ c_admitted = [r \in Runs |-> <<>>]
  /\ op = c_op
  /\ pc = "concurrent"
  /\ payload_max = MaxResultsBound
  /\ max_results = MaxResultsBound
  /\ max_pages = NoneInt
  /\ q_status = "none"
  /\ q_total = 0
  /\ q_error = None
  /\ saved_count = 0
  /\ exc = None
  /\ ret = <<>>
  /\ response = [code |-> 0]
  /\ businesses = <<>>
  /\ seen_phones = {}
  /\ seen_names = {}
  /\ n_items = 0
  /\ idx = 0
  /\ extracted = <<>>
  /\ content = NoContent
  /\ j = 1
  /\ total_companies = 0
  /\ pages_needed = 0
  /\ page_num = 0
  /\ li_left = 0
  /\ li_uniform = FALSE
  /\ hs_playwright = None
  /\ hs_browser = None
  /\ hs_context = None
  /\ hs_handles = NoHandles
  /\ FnIdle
  /\ scrolls = 0
  /\ pages_fetched = 0
  /\ save_i = 1
  /\ saved = <<>>
  /\ save_failed = {}
  /\ ev = "init"

\* the contexts that were created in browser b: they close with it
CtxIn(b) == {ContextOf(r) : r \in {x \in Runs : ctx_browser[x] = b}}

\* a run leaves its connector with an exception: the run operation marks
\* the row Failed
ConcRaise(r) ==
  /\ c_result' = [c_result EXCEPT ![r] = "failed"]
  /\ c_pc' = [c_pc EXCEPT ![r] = "done"]

(* Search connector, DuckDuckGoScraper.scrape *)

\* mutant of RunLocal: the set is one object shared by all runs
RunLocal_Shared(sets, r, new) == [x \in Runs |-> new]

\* seen_phones and seen_names are local variables of _scrape_websites
\* (lines 300-301): an assignment in run r changes the set of run r only
RunLocal(sets, r, new) == [sets EXCEPT ![r] = new]

\* _scrape_websites, the inner loop over extracted_businesses (lines
\* 318-344), which has no await: the records are admitted in turn
RECURSIVE AdmitAll(_, _, _, _, _)
AdmitAll(cands, sp, sn, out, mr) ==
  IF cands = <<>> \/ Len(out) >= mr
  THEN [out |-> out, sp |-> sp, sn |-> sn]
  ELSE LET business == Head(cands)
           phone == business.phone
           name == DedupName(business)
       IN  IF IsDuplicate(phone, name, sp, sn)
           THEN AdmitAll(Tail(cands), sp, sn, out, mr)
           ELSE AdmitAll(Tail(cands), AddPhone(phone, sp), AddName(name, sn),
                         Append(out, business), mr)

\* self.browser = await p.chromium.launch(...)  (lines 40-47)
CDdgLaunch(r) ==
  /\ c_op = "search"
  /\ c_pc[r] = "start"
  /\ dd_browser' = BrowserOf(r)
  /\ open_browsers' = open_browsers \cup {BrowserOf(r)}
  /\ c_pc' = [c_pc EXCEPT ![r] = "new_context"]
  /\ UNCHANGED <<c_op, c_result, dd_context, open_contexts, ctx_browser, c_pages,
                 c_closed, hsVars, seqVars>>

\* self.context = await self.browser.new_context(...)  (lines 48-61): the
\* context is created in whatever browser the field holds now
CDdgNewContext(r) ==
  /\ c_op = "search"
  /\ c_pc[r] = "new_context"
  /\ IF dd_browser \in open_browsers
     THEN /\ ctx_browser' = [ctx_browser EXCEPT ![r] = dd_browser]
          /\ open_contexts' = open_contexts \cup {ContextOf(r)}
          /\ dd_context' = ContextOf(r)
          /\ c_pc' = [c_pc EXCEPT ![r] = "init_script"]
          /\ UNCHANGED c_result
     ELSE /\ ConcRaise(r)
          /\ UNCHANGED <<ctx_browser, open_contexts, dd_context>>
  /\ UNCHANGED <<c_op, dd_browser, open_browsers, c_pages, c_closed, hsVars, seqVars>>

\* await self.context.add_init_script(...)  (lines 64-82), still outside the try
CDdgInitScript(r) ==
  /\ c_op = "search"
  /\ c_pc[r] = "init_script"
  /\ IF dd_context \in open_contexts
     THEN c_pc' = [c_pc EXCEPT ![r] = "search"] /\ UNCHANGED c_result
     ELSE ConcRaise(r)
  /\ UNCHANGED <<c_op, dd_browser, dd_context, open_browsers, open_contexts,
                 ctx_browser, c_pages, c_closed, hsVars, seqVars>>

\* _search_duckduckgo (lines 86, 112): the search page is opened in
\* self.context; an error anywhere ends in "return []" of scrape
CDdgSearch(r) ==
  /\ c_op = "search"
  /\ c_pc[r] = "search"
  /\ IF dd_context \in open_contexts
     THEN /\ c_pages' = [c_pages EXCEPT ![r] = @ \cup {dd_context}]
          /\ \E n \in {0, 1} :
               c_pc' = [c_pc EXCEPT ![r] = IF n = 1 THEN "result" ELSE "finally"]
     ELSE /\ c_pc' = [c_pc EXCEPT ![r] = "finally"]
          /\ UNCHANGED c_pages
  /\ c_seen_phones' = RunLocal(c_seen_phones, r, {})
  /\ c_seen_names' = RunLocal(c_seen_names, r, {})
  /\ c_admitted' = [c_admitted EXCEPT ![r] = <<>>]
  /\ UNCHANGED <<c_op, c_result, dd_browser, dd_context, open_browsers,
                 open_contexts, ctx_browser, c_closed, c_found, hsVars, soloVars>>

\* _extract_all_from_website for the one result URL (line 554): the result
\* page is opened in self.context; an error is caught by _scrape_websites
CDdgResult(r) ==
  /\ c_op = "search"
  /\ c_pc[r] = "result"
  /\ IF dd_context \in open_contexts
     \* the result pages the concurrent runs meet carry up to MaxPhones
     \* phones, under a short or a long title
     THEN \E page \in {p \in PageContents : p.emails = <<>> /\ p.addresses = <<>>},
             title \in {TitleShort, TitleLong} :
            LET found == ExtractAllFromWebsite(page, title)
                res == AdmitAll(found, c_seen_phones[r], c_seen_names[r],
                                c_admitted[r], max_results)
            IN  /\ c_pages' = [c_pages EXCEPT ![r] = @ \cup {dd_context}]
                /\ c_found' = [c_found EXCEPT ![r] = found]
                /\ c_admitted' = [c_admitted EXCEPT ![r] = res.out]
                /\ c_seen_phones' = RunLocal(c_seen_phones, r, res.sp)
                /\ c_seen_names' = RunLocal(c_seen_names, r, res.sn)
     ELSE UNCHANGED <<c_pages, dedupVars>>
  /\ c_pc' = [c_pc EXCEPT ![r] = "finally"]
  /\ UNCHANGED <<c_op, c_result, dd_browser, dd_context, open_browsers,
                 open_contexts, ctx_browser, c_closed, hsVars, soloVars>>

\* finally: await self.browser.close()  (lines 102-103): the browser the
\* field holds now is closed, and its contexts with it
CDdgFinally(r) ==
  /\ c_op = "search"
  /\ c_pc[r] = "finally"
  /\ c_closed' = [c_closed EXCEPT ![r] = @ \cup {dd_browser}]
  /\ open_browsers' = open_browsers \ {dd_browser}
  /\ open_contexts' = open_contexts \ CtxIn(dd_browser)
  /\ c_result' = [c_result EXCEPT ![r] = "completed"]
  /\ c_pc' = [c_pc EXCEPT ![r] = "done"]
  /\ UNCHANGED <<c_op, dd_browser, dd_context, ctx_browser, c_pages, hsVars, seqVars>>

(* Registry connector, HSCTVNScraper.scrape *)

\* HSCTVNScraper.close (lines 104-118), also the cleanup of _setup_browser's
\* except branch (lines 90-101): the context, the browser and the driver
\* the fields hold now are closed and the fields reset
HsClose ==
  /\ open_contexts' = (open_contexts \ {hs_context}) \ CtxIn(hs_browser)
  /\ open_browsers' = open_browsers \ {hs_browser}
  /\ hs_playwright' = None
  /\ hs_browser' = None
  /\ hs_context' = None

\* _setup_browser failed: cleanup, RuntimeError, the run is Failed
CRegSetupFailed(r) ==
  /\ HsClose
  /\ ConcRaise(r)
  /\ UNCHANGED <<c_op, dd_browser, dd_context, ctx_browser, c_pages, c_closed, seqVars>>

\* scrape, lines 151-156: set the browser up unless the field holds a
\* connected browser
CRegStart(r) ==
  /\ c_op = "registry"
  /\ c_pc[r] = "start"
  /\ IF hs_browser = None
     THEN /\ c_pc' = [c_pc EXCEPT ![r] = "setup_driver"]
          /\ UNCHANGED <<hsVars, open_browsers, open_contexts>>
     ELSE IF hs_browser \notin open_browsers
     THEN /\ HsClose
          /\ c_pc' = [c_pc EXCEPT ![r] = "setup_driver"]
     ELSE /\ c_pc' = [c_pc EXCEPT ![r] = "new_page"]
          /\ UNCHANGED <<hsVars, open_browsers, open_contexts>>
  /\ UNCHANGED <<c_op, c_result, dd_browser, dd_context, ctx_browser, c_pages,
                 c_closed, seqVars>>

\* self.playwright = await async_playwright().start()  (line 60)
CRegSetupDriver(r) ==
  /\ c_op = "registry"
  /\ c_pc[r] = "setup_driver"
  /\ hs_playwright' = DriverOf(r)
  /\ c_pc' = [c_pc EXCEPT ![r] = "setup_launch"]
  /\ UNCHANGED <<c_op, c_result, dd_browser, dd_context, open_browsers,
                 open_contexts, ctx_browser, c_pages, c_closed, hs_browser,
                 hs_context, seqVars>>

\* self.browser = await self.playwright.chromium.launch(...)  (lines 64-71)
CRegSetupLaunch(r) ==
  /\ c_op = "registry"
  /\ c_pc[r] = "setup_launch"
  /\ IF hs_playwright # None
     THEN /\ hs_browser' = BrowserOf(r)
          /\ open_browsers' = open_browsers \cup {BrowserOf(r)}
          /\ c_pc' = [c_pc EXCEPT ![r] = "setup_context"]
          /\ UNCHANGED <<c_op, c_result, dd_browser, dd_context, open_contexts,
                         ctx_browser, c_pages, c_closed, hs_playwright,
                         hs_context, seqVars>>
     ELSE CRegSetupFailed(r)

\* self.context = await self.browser.new_context(...)  (lines 75-76)
CRegSetupContext(r) ==
  /\ c_op = "registry"
  /\ c_pc[r] = "setup_context"
  /\ IF hs_browser \in open_browsers
     THEN /\ ctx_browser' = [ctx_browser EXCEPT ![r] = hs_browser]
          /\ open_contexts' = open_contexts \cup {ContextOf(r)}
          /\ hs_context' = ContextOf(r)
          /\ c_pc' = [c_pc EXCEPT ![r] = "setup_script"]
          /\ UNCHANGED <<c_op, c_result, dd_browser, dd_context, open_browsers,
                         c_pages, c_closed, hs_playwright, hs_browser, seqVars>>
     ELSE CRegSetupFailed(r)

\* await self.context.add_init_script(...) and the check of lines 158-161
CRegSetupScript(r) ==
  /\ c_op = "registry"
  /\ c_pc[r] = "setup_script"
  /\ IF hs_context \in open_contexts
     THEN /\ c_pc' = [c_pc EXCEPT ![r] = "new_page"]
          /\ UNCHANGED <<c_op, c_result, dd_browser, dd_context, open_browsers,
                         open_contexts, ctx_browser, c_pages, c_closed, hsVars,
                         seqVars>>
     ELSE CRegSetupFailed(r)

\* page = await self.context.new_page()  (line 168), before the try: an
\* error leaves scrape without the finally block.  A run that found
\* self.context None at line 160 fails in the same way.
CRegNewPage(r) ==
  /\ c_op = "registry"
  /\ c_pc[r] = "new_page"
  /\ IF hs_context \in open_contexts
     THEN /\ c_pages' = [c_pages EXCEPT ![r] = @ \cup {hs_context}]
          /\ c_pc' = [c_pc EXCEPT ![r] = "fetch"]
          /\ UNCHANGED c_result
     ELSE /\ ConcRaise(r)
          /\ UNCHANGED c_pages
  /\ UNCHANGED <<c_op, dd_browser, dd_context, open_browsers, open_contexts,
                 ctx_browser, c_closed, hsVars, seqVars>>

\* await page.goto(...)  (line 172): raises when the context of the page has
\* been closed meanwhile, and the error is re-raised (lines 233-235)
CRegFetch(r) ==
  /\ c_op = "registry"
  /\ c_pc[r] = "fetch"
  /\ c_result' = IF c_pages[r] \subseteq open_contexts THEN c_result
                 ELSE [c_result EXCEPT ![r] = "raising"]
  /\ c_pc' = [c_pc EXCEPT ![r] = "finally"]
  /\ UNCHANGED <<c_op, dd_browser, dd_context, open_browsers, open_contexts,
                 ctx_browser, c_pages, c_closed, hsVars, seqVars>>

\* finally: page.close(), self.close()  (lines 236-240)
CRegFinally(r) ==
  /\ c_op = "registry"
  /\ c_pc[r] = "finally"
  /\ HsClose
  /\ c_closed' = [c_closed EXCEPT ![r] = @ \cup ({hs_browser} \ {None})]
  /\ c_result' = [c_result EXCEPT ![r] =
                    IF @ = "raising" THEN "failed" ELSE "completed"]
  /\ c_pc' = [c_pc EXCEPT ![r] = "done"]
  /\ UNCHANGED <<c_op, dd_browser, dd_context, ctx_browser, c_pages, seqVars>>

ConcNext ==
  \E r \in Runs :
    \/ CDdgLaunch(r)
    \/ CDdgNewContext(r)
    \/ CDdgInitScript(r)
    \/ CDdgSearch(r)
    \/ CDdgResult(r)
    \/ CDdgFinally(r)
    \/ CRegStart(r)
    \/ CRegSetupDriver(r)
    \/ CRegSetupLaunch(r)
    \/ CRegSetupContext(r)
    \/ CRegSetupScript(r)
    \/ CRegNewPage(r)
    \/ CRegFetch(r)
    \/ CRegFinally(r)

ConcSpec == ConcInit /\ [][ConcNext]_vars

(***************************************************************************)
(* The extraction functions called on their own.  Each takes what the page *)
(* or the service hands it and returns a value without touching the state  *)
(* of a run; FnSpec draws the function and its argument and applies it.    *)
(***************************************************************************)
(* DuckDuckGoScraper._extract_all_phones *)

\* pieces of page text, character by character: a mobile number written
\* without separators, one written with dots, one in the +84 form, a date
DateText == <<"2","0","/","1","0","/","2","0","2","5">>
TextPieces ==
  { <<"0","9","1","2","3","4","5","6","7","8">>,
    <<"0","9","0","1",".","2","3","4",".","5","6","7">>,
    <<"+","8","4","9","1","2","3","4","5","6","7","8">>,
    DateText }

\* a page text: up to MaxPieces pieces with one blank between neighbours
RECURSIVE JoinPieces(_)
JoinPieces(ps) ==
  IF ps = <<>> THEN <<>>
  ELSE IF Len(ps) = 1 THEN Head(ps)
  ELSE Head(ps) \o <<" ">> \o JoinPieces(Tail(ps))

PhoneInputs == SeqsUpTo(TextPieces, MaxPieces) \ {<<>>}

\* the character at position i, "" past the end
CharAt(t, i) == IF i >= 1 /\ i <= Len(t) THEN t[i] ELSE ""
IsDigit(c) == c \in {"0", "1", "2", "3", "4", "5", "6", "7", "8", "9"}
IsNonZero(c) == IsDigit(c) /\ c # "0"
IsSep(c) == c \in {" ", ".", "-"}
DigitsAt(t, i, n) == \A k \in 0..(n - 1) : IsDigit(CharAt(t, i + k))
LiteralAt(t, i, lit) == \A k \in 1..Len(lit) : CharAt(t, i + k - 1) = lit[k]

\* The first pattern, (?:\+84|84|0)[\s\.\-]?[1-9]\d{1,2}[\s\.\-]?\d{3}[\s\.\-]?\d{3,4}:
\* the ways it can match, each with the rank in which the matcher tries it
\* (alternatives left to right, optional and counted parts longest first)
Prefixes == <<<<"+","8","4">>, <<"8","4">>, <<"0">>>>
WayRank(w) ==
  ((((w.pre - 1) * 2 + (1 - w.s1)) * 2 + (2 - w.a)) * 2 + (1 - w.s2)) * 4
  + (1 - w.s3) * 2 + (4 - w.d)
WayMatches(t, i, w) ==
  LET p == i + Len(Prefixes[w.pre])
      q == p + w.s1
      r == q + 1 + w.a
      u == r + w.s2
      v == u + 3
      x == v + w.s3
  IN  /\ LiteralAt(t, i, Prefixes[w.pre])
      /\ w.s1 = 1 => IsSep(CharAt(t, p))
      /\ IsNonZero(CharAt(t, q))
      /\ DigitsAt(t, q + 1, w.a)
      /\ w.s2 = 1 => IsSep(CharAt(t, r))
      /\ DigitsAt(t, u, 3)
      /\ w.s3 = 1 => IsSep(CharAt(t, v))
      /\ DigitsAt(t, x, w.d)

\* length of the match of pattern k at position i, 0 when there is none;
\* the second pattern is 0[1-9]\d{8,9}, the third \+84[1-9]\d{8,9}
MatchLen(k, t, i) ==
  IF k = 1
  THEN LET Pattern1Ways ==
             [pre : 1..3, s1 : {0, 1}, a : {1, 2}, s2 : {0, 1}, s3 : {0, 1},
              d : {3, 4}]
           ways == {w \in Pattern1Ways : WayMatches(t, i, w)}
           first == CHOOSE w \in ways : \A o \in ways : WayRank(w) <= WayRank(o)
       IN  IF ways = {} THEN 0
           ELSE Len(Prefixes[first.pre]) + first.s1 + 1 + first.a + first.s2
                + 3 + first.s3 + first.d
  ELSE LET lit == IF k = 2 THEN <<"0">> ELSE <<"+","8","4">>
           n == Len(lit)
       IN  IF LiteralAt(t, i, lit) /\ IsNonZero(CharAt(t, i + n))
              /\ DigitsAt(t, i + n + 1, 8)
           THEN (IF IsDigit(CharAt(t, i + n + 9)) THEN n + 10 ELSE n + 9)
           ELSE 0

\* re.findall(pattern, text): the matches from left to right, each search
\* going on where the last match ended
RECURSIVE FindAll(_, _, _)
FindAll(k, t, i) ==
  IF i > Len(t) THEN <<>>
  ELSE LET n == MatchLen(k, t, i)
       IN  IF n > 0 THEN <<SubSeq(t, i, i + n - 1)>> \o FindAll(k, t, i + n)
           ELSE FindAll(k, t, i + 1)

\* re.sub(r'[\s\.\-]', '', match)
RECURSIVE CleanPhone(_)
CleanPhone(m) ==
  IF m = <<>> THEN <<>>
  ELSE IF IsSep(Head(m)) THEN CleanPhone(Tail(m))
  ELSE <<Head(m)>> \o CleanPhone(Tail(m))

\* lines 451-456: the matches of one pattern are cleaned and appended
\* unless seen before or shorter than 10
RECURSIVE AppendPhones(_, _)
AppendPhones(phones, matches) ==
  IF matches = <<>> THEN phones
  ELSE LET phone == CleanPhone(Head(matches))
           seen == {phones[i] : i \in 1..Len(phones)}
       IN  AppendPhones(IF phone \notin seen /\ Len(phone) >= 10
                        THEN Append(phones, phone) ELSE phones,
                        Tail(matches))

\* _extract_all_phones (lines 436-458): the patterns one after the other
ExtractAllPhones(text) ==
  AppendPhones(AppendPhones(AppendPhones(<<>>, FindAll(1, text, 1)),
                            FindAll(2, text, 1)),
               FindAll(3, text, 1))

(* DuckDuckGoScraper._search_duckduckgo, the loop over the result elements *)

\* A URL is the sequence of its parts; `x in url` asks for a part, and
\* len(url) is the sum of the parts' lengths.
ExternalUrl == <<"https://", "pho.vn", "/lien-he">>
NoHref == <<>>

\* The result elements of the search page and the max_results of the call.
\* The href of a result's title link is an external page, an external page
\* whose path mentions the engine, a redirect of the engine with and without
\* a destination, a page of the engine, a fragment, a script, a relative
\* link, or NoHref when the result has no title link or the link no href.
SearchInputs ==
  LET Hrefs ==
        { ExternalUrl,
          <<"https://", "example.org", "/blog/", "duckduckgo.com", "-review">>,
          <<"https://", "duckduckgo.com", "/y.js?", "uddg=",
            "https%3A%2F%2Fpho.vn%2Flien-he">>,
          <<"https://", "duckduckgo.com", "/y.js?", "ad_domain=pho.vn">>,
          <<"https://", "duckduckgo.com", "/settings">>,
          <<"#", "more-results">>,
          <<"javascript:", "void(0)">>,
          <<"/", "l/?kh=-1">>,
          NoHref }
  IN  [links : SeqsUpTo(Hrefs, MaxLinks), max_results : 0..MaxResultsBound]

Contains(url, part) == \E i \in 1..Len(url) : url[i] = part
StartsWith(url, part) == url # <<>> /\ Head(url) = part
StartsWithHttp(url) == StartsWith(url, "http://") \/ StartsWith(url, "https://")

RECURSIVE UrlLen(_)
UrlLen(url) == IF url = <<>> THEN 0 ELSE Len(Head(url)) + UrlLen(Tail(url))

\* parse_qs(urlparse(url).query): the value of 'uddg', percent-decoded;
\* NoHref when the query has no 'uddg'
Uddg(url) ==
  IF \E i \in 1..(Len(url) - 1) : url[i] = "uddg="
  THEN LET i == CHOOSE k \in 1..(Len(url) - 1) : url[k] = "uddg="
       IN  IF url[i + 1] = "https%3A%2F%2Fpho.vn%2Flien-he" THEN ExternalUrl
           ELSE <<url[i + 1]>>
  ELSE NoHref

\* lines 204-266 for one result element: the URL to append, NoHref when the
\* element is skipped
ResolveUrl(href) ==
  IF href = NoHref THEN NoHref
  ELSE IF StartsWith(href, "#") \/ StartsWith(href, "javascript:") THEN NoHref
  ELSE LET url == IF Contains(href, "duckduckgo.com")
                  THEN (IF Contains(href, "/y.js?") THEN Uddg(href) ELSE NoHref)
                  ELSE href
       IN  IF url # NoHref /\ UrlLen(url) > 10 /\ StartsWithHttp(url) THEN url
           ELSE NoHref

\* the loop of lines 196-278 over result_elements[:max_results * 2], from
\* element number i on
RECURSIVE CollectUrls(_, _, _, _)
CollectUrls(links, i, results, mr) ==
  IF i > Min(Len(links), mr * 2) \/ Len(results) >= mr THEN results
  ELSE LET url == ResolveUrl(links[i])
       IN  CollectUrls(links, i + 1,
                       IF url = NoHref THEN results ELSE Append(results, url), mr)

(* GeminiService (ai_services.py) *)

\* JSON values the model may answer with.  Every value is a record with a
\* kind; an object carries its 'phone', 'email' and 'businesses' members,
\* JsonAbsent standing for a member that is not there.
JsonAbsent == [kind |-> "absent"]
JsonNull == [kind |-> "null"]
JsonString == [kind |-> "string"]
JsonArray == [kind |-> "array", items |-> <<>>]
JsonInvalid == [kind |-> "invalid"]
JsonObject(phone, email, list) ==
  [kind |-> "object", phone |-> phone, email |-> email, businesses |-> list]

\* the 'phone' and 'email' members of an object: absent or null, empty, set
ContactValues(v) == {None, "", v}

\* the JSON documents the single-entity prompt may be answered with: no
\* JSON, a value that is no object, one business object as the prompt asks
SingleAnswers ==
  {JsonInvalid, JsonNull, JsonString, JsonArray}
  \cup {JsonObject(ph, em, JsonAbsent) :
          ph \in ContactValues("0901234567"), em \in ContactValues("info@pho.vn")}

\* The JSON documents the multi-entity prompt may be answered with. The
\* entries of a 'businesses' array are an object with a phone, with an email
\* only, with neither, or something that is not an object; the member
\* itself may be absent, null, a string or such an array.
MultiAnswers ==
  LET BusinessEntries ==
        { JsonObject("0901234567", None, JsonAbsent),
          JsonObject(None, "info@pho.vn", JsonAbsent),
          JsonObject(None, "", JsonAbsent),
          JsonString }
      BusinessLists ==
        {JsonAbsent, JsonNull, JsonString}
        \cup {[kind |-> "array", items |-> l] :
                l \in SeqsUpTo(BusinessEntries, MaxEntries)}
  IN  {JsonInvalid, JsonNull, JsonString, JsonArray}
      \cup {JsonObject(None, None, l) : l \in BusinessLists}

\* response.text as a sequence of tokens: blanks, the opening code fence
\* with the json tag, the bare code fence, and the JSON document
TokSpace == [tok |-> "space"]
TokFenceJson == [tok |-> "fence_json"]
TokFence == [tok |-> "fence"]
TokJson(v) == [tok |-> "json", json |-> v]

\* what generate_content does: it raises, or it answers with a text, which
\* is empty or the document in one of the ways it comes wrapped
Replies(answers) ==
  LET ResponseTexts ==
        {<<>>}
        \cup UNION { { <<TokJson(v)>>,
                       <<TokFenceJson, TokJson(v), TokFence>>,
                       <<TokSpace, TokFenceJson, TokJson(v), TokFence, TokSpace>>,
                       <<TokFenceJson, TokJson(v)>>,
                       <<TokFence, TokJson(v), TokFence>> } : v \in answers }
  IN  {[raises |-> TRUE, text |-> <<>>]}
      \cup {[raises |-> FALSE, text |-> t] : t \in ResponseTexts}

\* the service with or without a configured model (__init__, lines 16-26)
\* and the answer the model would give
AiInputs(answers) == [model : BOOLEAN, reply : Replies(answers)]

\* str.strip() on a token sequence
RECURSIVE TokLStrip(_)
TokLStrip(t) == IF t # <<>> /\ Head(t) = TokSpace THEN TokLStrip(Tail(t)) ELSE t
RECURSIVE TokRStrip(_)
TokRStrip(t) ==
  IF t # <<>> /\ t[Len(t)] = TokSpace THEN TokRStrip(SubSeq(t, 1, Len(t) - 1))
  ELSE t
TokStrip(t) == TokRStrip(TokLStrip(t))

\* lines 69-75 and 121-127: strip, drop a leading json fence, drop a
\* trailing fence, strip again
CleanResponse(text) ==
  LET a == TokStrip(text)
      b == IF a # <<>> /\ Head(a) = TokFenceJson THEN Tail(a) ELSE a
      c == IF b # <<>> /\ b[Len(b)] = TokFence THEN SubSeq(b, 1, Len(b) - 1)
           ELSE b
  IN  TokStrip(c)

\* json.loads: the text must be one well-formed document and nothing else
JsonLoads(text) ==
  IF Len(text) = 1 /\ text[1].tok = "json" /\ text[1].json # JsonInvalid
  THEN [ok |-> TRUE, val |-> text[1].json]
  ELSE [ok |-> FALSE]

\* truth value of data.get('phone') / data.get('email')
Truthy(v) == v # None /\ v # ""

\* data.get('phone') or data.get('email')  (lines 78 and 135)
HasContact(d) == Truthy(d.phone) \/ Truthy(d.email)

\* the record handed back: the object with 'website' and 'source' set
AiRecord(d) ==
  [phone |-> d.phone, email |-> d.email, website |-> "https://pho.vn",
   source |-> "duckduckgo_ai"]

\* how a call ends: with a value, or with an exception
Returns(v) == [raised |-> FALSE, val |-> v]

\* mutant of OnException: the exception leaves the method
OnException_Reraise(default) == [raised |-> TRUE, val |-> default]

\* except Exception: return None / return []  (lines 87-89 and 144-146)
OnException(default) == Returns(default)

\* extract_business_info (lines 28-89)
ExtractBusinessInfo(arg) ==
  IF ~arg.model THEN Returns(NoneDict)
  ELSE IF arg.reply.raises THEN OnException(NoneDict)
  ELSE LET data == JsonLoads(CleanResponse(arg.reply.text))
       IN  IF ~data.ok THEN OnException(NoneDict)
           ELSE IF data.val.kind # "object" THEN OnException(NoneDict)
           ELSE IF ~HasContact(data.val) THEN Returns(NoneDict)
           ELSE Returns(AiRecord(data.val))

\* the loop of lines 133-140 over the 'businesses' array: an entry that is
\* not an object raises at b.get
RECURSIVE ValidBusinesses(_)
ValidBusinesses(items) ==
  IF items = <<>> THEN [ok |-> TRUE, val |-> <<>>]
  ELSE LET b == Head(items)
           rest == ValidBusinesses(Tail(items))
       IN  IF b.kind # "object" \/ ~rest.ok THEN [ok |-> FALSE]
           ELSE [ok |-> TRUE,
                 val |-> IF HasContact(b) THEN <<AiRecord(b)>> \o rest.val
                         ELSE rest.val]

\* extract_multiple_businesses (lines 91-146)
ExtractMultipleBusinesses(arg) ==
  IF ~arg.model THEN Returns(<<>>)
  ELSE IF arg.reply.raises THEN OnException(<<>>)
  ELSE LET result == JsonLoads(CleanResponse(arg.reply.text))
       IN  IF ~result.ok THEN OnException(<<>>)
           ELSE IF result.val.kind # "object" THEN OnException(<<>>)
           ELSE LET businesses_ == result.val.businesses
                IN  IF businesses_ = JsonAbsent THEN Returns(<<>>)
                    ELSE IF businesses_.kind # "array" THEN OnException(<<>>)
                    ELSE LET valid == ValidBusinesses(businesses_.items)
                         IN  IF valid.ok THEN Returns(valid.val)
                             ELSE OnException(<<>>)

\* the arguments each function is called with
FnInputs(f) ==
  CASE f = "extract_company_from_li" -> LiInputs
    [] f = "extract_business_info" -> AiInputs(SingleAnswers)
    [] f = "extract_multiple_businesses" -> AiInputs(MultiAnswers)
    [] f = "search_results" -> SearchInputs
    [] f = "extract_all_phones" -> PhoneInputs

FnInit ==
  /\ fn \in {"extract_company_from_li", "extract_business_info",
             "extract_multiple_businesses", "search_results",
             "extract_all_phones"}
  /\ fn_arg \in FnInputs(fn)
  /\ fn_out = NoneDict
  /\ fn_pc = "call"
  /\ ai_calls = 0
  /\ op = "none"
  /\ pc = "fn"
  /\ payload_max = 0
  /\ max_results = 0
  /\ max_pages = NoneInt
  /\ q_status = "none"
  /\ q_total = 0
  /\ q_error = None
  /\ saved_count = 0
  /\ exc = None
  /\ ret = <<>>
  /\ response = [code |-> 0]
  /\ businesses = <<>>
  /\ seen_phones = {}
  /\ seen_names = {}
  /\ n_items = 0
  /\ idx = 0
  /\ extracted = <<>>
  /\ content = NoContent
  /\ j = 1
  /\ total_companies = 0
  /\ pages_needed = 0
  /\ page_num = 0
  /\ li_left = 0
  /\ li_uniform = FALSE
  /\ hs_playwright = None
  /\ hs_browser = None
  /\ hs_context = None
  /\ hs_handles = NoHandles
  /\ scrolls = 0
  /\ pages_fetched = 0
  /\ save_i = 1
  /\ saved = <<>>
  /\ save_failed = {}
  /\ ConcIdle
  /\ ev = "init"

\* HSCTVNScraper._extract_company_from_li on one <li>
FnExtractCompanyFromLi ==
  /\ fn = "extract_company_from_li"
  /\ fn_pc = "call"
  /\ fn_out' = ExtractCompanyFromLi(fn_arg)
  /\ fn_pc' = "returned"
  /\ UNCHANGED <<fn, fn_arg, ai_calls>>

\* GeminiService.extract_business_info on one page text
FnExtractBusinessInfo ==
  /\ fn = "extract_business_info"
  /\ fn_pc = "call"
  /\ LET res == ExtractBusinessInfo(fn_arg)
     IN  /\ fn_out' = res.val
         /\ fn_pc' = IF res.raised THEN "raised" ELSE "returned"
  /\ ai_calls' = ai_calls + 1
  /\ UNCHANGED <<fn, fn_arg>>

\* GeminiService.extract_multiple_businesses on one page text
FnExtractMultipleBusinesses ==
  /\ fn = "extract_multiple_businesses"
  /\ fn_pc = "call"
  /\ LET res == ExtractMultipleBusinesses(fn_arg)
     IN  /\ fn_out' = res.val
         /\ fn_pc' = IF res.raised THEN "raised" ELSE "returned"
  /\ ai_calls' = ai_calls + 1
  /\ UNCHANGED <<fn, fn_arg>>

\* DuckDuckGoScraper._search_duckduckgo on the result elements of a page
FnSearchResults ==
  /\ fn = "search_results"
  /\ fn_pc = "call"
  /\ fn_out' = CollectUrls(fn_arg.links, 1, <<>>, fn_arg.max_results)
  /\ fn_pc' = "returned"
  /\ UNCHANGED <<fn, fn_arg, ai_calls>>

\* DuckDuckGoScraper._extract_all_phones on the text of a page
FnExtractAllPhones ==
  /\ fn = "extract_all_phones"
  /\ fn_pc = "call"
  /\ fn_out' = ExtractAllPhones(JoinPieces(fn_arg))
  /\ fn_pc' = "returned"
  /\ UNCHANGED <<fn, fn_arg, ai_calls>>

FnNext ==
  /\ \/ FnExtractCompanyFromLi
     \/ FnExtractAllPhones
     \/ FnSearchResults
     \/ FnExtractBusinessInfo
     \/ FnExtractMultipleBusinesses
  /\ UNCHANGED <<inputVars, handleVars, mapsVars, saveVars, svcVars,
                 searchVars, regVars, pc, max_results, exc, ret, businesses,
                 seen_names, n_items, idx, ev, concVars, hsVars>>

FnSpec == FnInit /\ [][FnNext]_vars

(***************************************************************************)
(* Claims.                                                                 *)
(***************************************************************************)
\* no two records of the list carry the same non-empty phone
NoSharedPhone(list) ==
  \A a, b \in 1..Len(list) :
    (a # b /\ list[a].phone # None) => list[a].phone # list[b].phone

\* no two records of the list have names longer than 10 characters that are
\* equal once lower-cased
NoSharedLongName(list) ==
  \A a, b \in 1..Len(list) :
    (a # b /\ Len(Strip(list[a].name)) > 10)
      => Lower(Strip(list[a].name)) # Lower(Strip(list[b].name))

\* C1: in a Search-Result run a candidate that reaches the admission test is
\* rejected (output and key sets unchanged) exactly when its phone is
\* non-empty and already seen, or its trimmed lower-cased name is longer than
\* 10 characters and already seen; otherwise it is appended and its keys are
\* inserted.  So the output never holds two records with one phone, nor two
\* names longer than 10 characters that differ only by case, and a name of
\* at most 10 characters never causes a rejection.
C1_AdmissionRule ==
  [][ /\ (pc = "ddg_admit" /\ Len(businesses) < max_results) =>
           LET cand == extracted[j]
               key == Strip(Lower(cand.name))
               seenPhone == cand.phone # None /\ cand.phone \in seen_phones
               seenName == Len(key) > 10 /\ key \in seen_names
           IN  IF seenPhone \/ seenName
               THEN /\ businesses' = businesses
                    /\ seen_phones' = seen_phones
                    /\ seen_names' = seen_names
               ELSE /\ businesses' = Append(businesses, cand)
                    /\ seen_phones' =
                         seen_phones \cup (IF cand.phone # None THEN {cand.phone} ELSE {})
                    /\ seen_names' =
                         seen_names \cup (IF Len(key) > 10 THEN {key} ELSE {})
      /\ op = "search" => NoSharedPhone(businesses') /\ NoSharedLongName(businesses')
    ]_vars

\* C1 witness: a candidate whose phone is new was rejected for its long name,
\* which an earlier record carries in another case
C1_Witness ==
  /\ op = "search"
  /\ ev = "reject"
  /\ pc = "ddg_loop"
  /\ extracted[j].phone # None
  /\ extracted[j].phone \notin seen_phones
  /\ \E i \in 1..Len(businesses) :
       /\ businesses[i].name # extracted[j].name
       /\ Lower(businesses[i].name) = Lower(extracted[j].name)

\* C2: the list every connector returns holds no two records with the same
\* non-empty phone
C2_NoSharedPhoneAnyConnector == NoSharedPhone(ret)

\* C3: the list a connector returns holds at most maxResults records, and in
\* the Search-Result connector no two of them share a phone
C3_AtMostMaxResults ==
  /\ Len(ret) <= payload_max
  /\ op = "search" => NoSharedPhone(ret)

\* C3 witness: the registry connector collected more than maxResults records
\* and returned exactly maxResults of them
C3_Witness ==
  /\ op = "registry"
  /\ pc = "svc_save"
  /\ payload_max >= 1
  /\ Len(businesses) > payload_max
  /\ Len(ret) = payload_max

Max(a, b) == IF a >= b THEN a ELSE b

\* C4: in a Registry run with maxPages given, the listing pages fetched never
\* exceed min(ceil(totalItems / 12), maxPages) (stated for the runs whose
\* first page showed a positive total)
C4_PagesWithinMaxPages ==
  (op = "registry" /\ max_pages # NoneInt /\ total_companies > 0) =>
    pages_fetched <= Min(CeilDiv(total_companies, 12), max_pages)

\* C5 as claimed: in a Registry run the listing pages fetched never exceed
\* ceil(maxResults / 12), and no listing page is fetched once the accumulated
\* record count has reached maxResults
C5_PagesWithinMaxResults ==
  [][ op = "registry" =>
        /\ pages_fetched' <= CeilDiv(payload_max, 12)
        /\ pages_fetched' > pages_fetched => Len(businesses) < payload_max
    ]_vars

\* C5 as amended: the first listing page is always fetched; the listing pages
\* fetched never exceed max(1, ceil(maxResults / 12)), and no listing page
\* after the first is fetched once the accumulated record count has reached
\* maxResults
C5_PagesWithinMaxResultsAfterFirst ==
  [][ op = "registry" =>
        /\ pages_fetched' <= Max(1, CeilDiv(payload_max, 12))
        /\ (pages_fetched' > pages_fetched /\ pages_fetched >= 1)
             => Len(businesses) < payload_max
    ]_vars

\* C5 witness: the page loop stopped before pages_needed because the records
\* of the pages fetched so far already reach maxResults
C5_Witness ==
  /\ op = "registry"
  /\ ev = "return"
  /\ page_num < pages_needed
  /\ pages_fetched = page_num
  /\ payload_max >= 1
  /\ Len(businesses) >= payload_max

\* C6: once maxResults (at least 1) records are accumulated no further item
\* is processed: no result URL is fetched, no tile is opened, no registry
\* list item is parsed and no detail page is fetched
C6_NoItemAfterCap ==
  [][ (/\ max_results >= 1
       /\ ev' \in {"fetch_result", "fetch_result_failed", "open_tile",
                  "open_tile_failed", "skip_tile", "fetch_detail",
                  "fetch_detail_failed", "parse_li"})
        => Len(businesses) < max_results
    ]_vars

\* C7 as claimed: the status of the run's row starts in Pending and moves
\* only Pending -> Processing -> Completed or Failed
C7_StatusFromPending ==
  [][ q_status' # q_status =>
        <<q_status, q_status'>> \in
          {<<"none", "pending">>, <<"pending", "processing">>,
           <<"processing", "completed">>, <<"processing", "failed">>}
    ]_vars

\* C7 as amended: the row is created in Processing; from there the status
\* moves only to Completed or to Failed, and then never changes again
C7_StatusFromProcessing ==
  [][ q_status' # q_status =>
        <<q_status, q_status'>> \in
          {<<"none", "processing">>,
           <<"processing", "completed">>, <<"processing", "failed">>}
    ]_vars

\* C7 witness: a request has been answered after its run went to Failed
C7_Witness == pc = "done" /\ q_status = "failed" /\ response.code = 500

\* C8: every invocation ends with a row that is Completed or Failed, the
\* caller is handed that status and the count, and a Failed row carries a
\* non-empty reason
C8_AlwaysStatusAndCount ==
  pc = "done" =>
    /\ q_status \in {"completed", "failed"}
    /\ response.code = 200
    /\ response.status = q_status
    /\ response.total_results = q_total
    /\ q_status = "failed" => q_error \notin {None, ""}

\* C9: when the browsing-session setup fails, the run goes from Processing
\* straight to Failed with a non-empty error message, totalResults stays 0
\* and no business row is persisted
C9_SetupFailure ==
  [][ (pc = "svc_except" /\ ev = "setup_failed") =>
        /\ q_status = "processing"
        /\ q_status' = "failed"
        /\ q_error' \notin {None, ""}
        /\ q_total' = 0
        /\ saved_count' = 0
    ]_vars

\* C10: a run becomes Failed only when its browsing session could not be set
\* up; a failure to load a page never turns the run Failed
C10_FailedOnlyBySetup ==
  [][ (q_status # "failed" /\ q_status' = "failed") => ev = "setup_failed" ]_vars

\* C11: when the fetch or the extraction of one item (a result URL, a feed
\* tile, a registry list entry) raises, the step leaves the accumulated
\* records and the seen-key sets as they were, raises nothing to the run,
\* and the item loop goes on with the next item
C11_ItemFailureTolerated ==
  [][ ev' \in {"fetch_result_failed", "open_tile_failed", "fetch_detail_failed"}
        => /\ businesses' = businesses
           /\ seen_phones' = seen_phones
           /\ seen_names' = seen_names
           /\ exc' = exc
           /\ q_status' = q_status
           /\ pc' \in {"ddg_loop", "maps_items", "reg_items"}
           /\ (op = "registry" => li_left' = li_left - 1)
           /\ (op # "registry" => idx' = idx + 1)
    ]_vars

\* a tile failed while records and seen names were already collected and
\* another tile is still to come
C11_Witness ==
  /\ ev = "open_tile_failed"
  /\ businesses # <<>>
  /\ seen_names # {}
  /\ idx < Min(n_items, max_results * 2)
  /\ Len(businesses) < max_results

\* C14: every record of the search connector carries a phone or an email,
\* and a page on which neither is found gives no record
C14_PhoneOrEmail ==
  op = "search" =>
    /\ \A i \in 1..Len(businesses) :
         businesses[i].phone # None \/ businesses[i].email # None
    /\ (content.phones = <<>> /\ content.emails = <<>> => extracted = <<>>)

\* C15: every record of the registry connector has a non-empty name and a
\* non-empty tax id, the detail page's fields merged in included
C15_NameAndTaxId ==
  op = "registry" =>
    \A i \in 1..Len(businesses) :
      /\ businesses[i].name # <<>>
      /\ businesses[i].tax_id # None
      /\ businesses[i].tax_id # ""

\* a registry run returned a record that carries the detail page's phone
C15_Witness ==
  /\ op = "registry"
  /\ pc = "done"
  /\ q_status = "completed"
  /\ \E i \in 1..Len(ret) : ret[i].phone # None

\* C16: a result page with no phone but an email or an address gives exactly
\* one record: no phone, the first email, the first address
C16_FallbackSingleRecord ==
  (content.phones = <<>> /\ (content.emails # <<>> \/ content.addresses # <<>>))
    => /\ Len(extracted) = 1
       /\ extracted[1].phone = None
       /\ extracted[1].email =
            (IF content.emails # <<>> THEN content.emails[1] ELSE None)
       /\ extracted[1].address =
            (IF content.addresses # <<>> THEN content.addresses[1] ELSE None)

C16_Witness ==
  /\ ev = "fetch_result"
  /\ content.phones = <<>>
  /\ content.emails = <<>>
  /\ content.addresses # <<>>
  /\ Len(extracted) = 1

RECURSIVE KeptFrom(_, _, _)
KeptFrom(list, failed, i) ==
  IF i > Len(list) THEN <<>>
  ELSE IF i \in failed THEN KeptFrom(list, failed, i + 1)
  ELSE <<list[i]>> \o KeptFrom(list, failed, i + 1)

\* C12: when the create of one record raises, the records after it are
\* still created, in the order of the list, and the run ends Completed:
\* the rows created are the records whose create did not raise, in order,
\* the loop ends only after the last record, and the status is never Failed
C12_SaveFailureTolerated ==
  /\ q_status # "failed"
  /\ saved = KeptFrom(SubSeq(ret, 1, save_i - 1), save_failed, 1)
  /\ (pc \in {"svc_saved", "api_ok", "done"} => save_i = Len(ret) + 1)
  /\ (pc = "done" => q_status = "completed")

\* the first of three records failed, the other two were created in order,
\* and the run ended Completed
C12_Witness ==
  /\ pc = "done"
  /\ q_status = "completed"
  /\ Len(ret) = 3
  /\ save_failed = {1}
  /\ saved = <<ret[2], ret[3]>>
  /\ ret[2] # ret[3]

\* C13 as stated: a Completed run's total_results is the length of the list
\* the connector returned
C13_TotalIsReturnedCount ==
  q_status = "completed" => q_total = Len(ret)

\* C13, amended: a Completed run's total_results is the number of rows
\* created for it: the length of the returned list less the records whose
\* create raised
C13_TotalIsPersistedCount ==
  q_status = "completed" =>
    /\ q_total = Len(saved)
    /\ q_total = Len(ret) - Cardinality(save_failed)

C13_Witness ==
  /\ q_status = "completed"
  /\ save_failed # {}
  /\ q_total >= 1
  /\ q_total < Len(ret)

\* C18: when a run has terminated, on the success path or on an error path,
\* the browsing session the registry connector acquired for it is closed and
\* no longer referenced: driver, browser and context are all released
C18_SessionReleasedOnExit ==
  pc = "done" =>
    /\ hs_playwright = None
    /\ hs_browser = None
    /\ hs_context = None

\* C19: with two search runs at the same time, every page a run opens is
\* created in the context this run created, that context lives in the
\* browser this run launched, and the browser a run closes when it
\* finishes is the one it launched
C19_SearchRunsOwnSession ==
  c_op = "search" =>
    \A r \in Runs :
      /\ c_pages[r] \subseteq {ContextOf(r)}
      /\ ctx_browser[r] \in {None, BrowserOf(r)}
      /\ c_closed[r] \subseteq {BrowserOf(r)}

\* C20: with two registry runs at the same time, each run opens its page in
\* the session it set up itself, no run's page loses its context while the
\* run is fetching, and no run becomes Failed
C20_RegistryRunsIndependent ==
  c_op = "registry" =>
    \A r \in Runs :
      /\ c_pages[r] \subseteq {ContextOf(r)}
      /\ (c_pc[r] = "fetch" => c_pages[r] \subseteq open_contexts)
      /\ c_result[r] # "failed"

\* C28: the max_results the search connector is called with never exceeds
\* 20: a payload value of at most 20 is passed on unchanged, a larger one
\* is replaced by 10.
C28_SearchMaxResultsCapped ==
  (op = "search" /\ pc \notin {"idle", "request"}) =>
    /\ max_results <= 20
    /\ payload_max <= 20 => max_results = payload_max
    /\ payload_max > 20 => max_results = 10

\* a search run asked for 21 results has reached its connector with 10
C28_Witness ==
  /\ op = "search" /\ payload_max = 21 /\ max_results = 10
  /\ pc = "ddg_loop"

\* C26: in the listing connector, every fifth tile the loop has gone through
\* (skipped and failed tiles counted) is followed by one more scroll of the
\* feed before the next tile, as long as fewer than max_results records are
\* collected.
C26_ScrollAfterEveryFifthTile ==
  [][ ( /\ pc = "maps_items"
        /\ idx' = idx + 1
        /\ idx' % 5 = 0
        /\ Len(businesses') < max_results )
      => scrolls' = scrolls + 1 ]_vars

\* C30: a registry run whose first listing page gives a total of 0 (also
\* when the heading cannot be parsed although the page lists items) returns
\* the empty list: no list item is parsed, no detail page and no further
\* listing page is fetched, and the run ends completed with total_results 0.
C30_ZeroTotalReturnsEmpty ==
  ( /\ op = "registry"
    /\ \/ pc \in {"svc_save", "svc_saved", "api_ok"}
       \/ pc = "done" /\ q_status # "none" /\ q_status # "failed"
    /\ total_companies = 0 )
  => /\ ret = <<>>
     /\ businesses = <<>>
     /\ page_num = 0
     /\ li_left = 0
     /\ pages_fetched = 1
     /\ ev \in {"fetch_listing", "save", "complete", "respond"}
     /\ pc \in {"api_ok", "done"} => q_status = "completed" /\ q_total = 0
     /\ pc = "done" => response = [code |-> 200, status |-> "completed",
                                    total_results |-> 0]

\* a registry run has answered after its first page gave a total of 0
C30_Witness ==
  /\ op = "registry" /\ pc = "done" /\ total_companies = 0
  /\ pages_fetched = 1 /\ response.code = 200 /\ q_status = "completed"

\* C29: when the registry browser setup fails at any of its steps, every
\* handle acquired so far has been closed and the playwright, browser and
\* context fields are all None when the error is raised.
C29_SetupFailureCleansUp ==
  (op = "registry" /\ ev = "setup_failed") =>
    /\ \A h \in Handles : hs_handles[h] # "open"
    /\ hs_playwright = None
    /\ hs_browser = None
    /\ hs_context = None
    /\ pc = "svc_except"

\* the init script failed after driver, browser and context were acquired,
\* and all three have been closed
C29_Witness ==
  /\ op = "registry" /\ ev = "setup_failed"
  /\ hs_handles = [h \in Handles |-> "closed"]
  /\ hs_context = None

\* C27: after a registry list item is merged with its detail page, the
\* record's address is the detail page's address when that is longer than
\* 20 characters and the list page's address otherwise (also when the
\* detail page could not be loaded or shows no address); name and tax id
\* are the list item's.
C27_MergedAddress ==
  ( /\ fn = "extract_company_from_li" /\ fn_pc = "returned"
    /\ fn_out # NoneDict ) =>
    LET loaded == fn_arg.hasUrl /\ fn_arg.detail \in {"phone", "no_phone"}
        found == loaded /\ fn_arg.daddr # NoDetailAddress
    IN  /\ fn_out.name = LiName(fn_arg)
        /\ fn_out.tax_id = LiTaxId(fn_arg)
        /\ fn_out.address = IF found /\ Len(fn_arg.daddr.text) > 20
                            THEN fn_arg.daddr.text
                            ELSE fn_arg.laddr

\* an item whose detail page shows an address of exactly 20 characters has
\* been merged and keeps the address of the list page
C27_Witness ==
  /\ fn = "extract_company_from_li" /\ fn_pc = "returned"
  /\ fn_arg.hasUrl /\ fn_arg.detail = "phone"
  /\ Len(fn_arg.daddr.text) = 20
  /\ fn_out # NoneDict
  /\ fn_out.phone = "0901234567"
  /\ fn_out.address = "Ha Noi"

\* C21: the seen-phone and seen-name sets of a search run are created empty
\* when the run starts and hold the keys of that run's records only; what a
\* run admits is what it would admit from its own result pages starting
\* with empty sets, whatever an earlier or concurrent run has admitted.
C21_SeenKeysPerRun ==
  \A r \in Runs :
    (c_op = "search" /\ c_pc[r] \in {"result", "finally", "done"}) =>
      LET alone == AdmitAll(c_found[r], {}, {}, <<>>, max_results)
      IN  /\ c_admitted[r] = alone.out
          /\ c_seen_phones[r] = alone.sp
          /\ c_seen_names[r] = alone.sn

\* both runs are over and each has admitted the same record
C21_Witness ==
  /\ c_op = "search"
  /\ \A r \in Runs : c_pc[r] = "done" /\ c_admitted[r] # <<>>
  /\ c_admitted[1] = c_admitted[2]
  /\ c_seen_phones[1] = c_seen_phones[2]
  /\ c_seen_names[1] # {}

\* C24: for every result page the search connector first tries the AI
\* multi-entity extraction, then the AI single-entity extraction, and only
\* then the deterministic field extraction: once the records of a result
\* page have been extracted, the AI extractor has been called.
C24_AiTriedBeforeFields ==
  (op = "search" /\ ev = "fetch_result") => ai_calls >= 1

\* the JSON document of a response text, JsonAbsent when it has none
DocumentOf(text) ==
  IF \E i \in 1..Len(text) : text[i].tok = "json"
  THEN (CHOOSE t \in {text[i] : i \in 1..Len(text)} : t.tok = "json").json
  ELSE JsonAbsent

\* C22: the AI extractor's single-entity and multi-entity operations never
\* raise; without a configured model, on a service error, on an empty or
\* unparsable response or on a document of an unexpected shape they return
\* None and the empty list; no record they return lacks both phone and
\* email.
C22_AiExtractorNeverRaises ==
  (fn \in {"extract_business_info", "extract_multiple_businesses"}
     /\ fn_pc # "call") =>
    LET doc == DocumentOf(fn_arg.reply.text)
        nothing == IF fn = "extract_business_info" THEN NoneDict ELSE <<>>
        unusable ==
          \/ ~fn_arg.model
          \/ fn_arg.reply.raises
          \/ doc.kind # "object"
          \/ fn = "extract_multiple_businesses" /\ doc.businesses.kind # "array"
    IN  /\ fn_pc = "returned"
        /\ unusable => fn_out = nothing
        /\ fn = "extract_business_info" /\ fn_out # NoneDict =>
             Truthy(fn_out.phone) \/ Truthy(fn_out.email)
        /\ fn = "extract_multiple_businesses" =>
             \A i \in 1..Len(fn_out) :
               Truthy(fn_out[i].phone) \/ Truthy(fn_out[i].email)

\* the multi-entity operation was answered with a fenced document of two
\* entries, one of them without phone and email, and returned the other
C22_Witness ==
  /\ fn = "extract_multiple_businesses" /\ fn_pc = "returned"
  /\ fn_arg.model /\ ~fn_arg.reply.raises
  /\ fn_arg.reply.text # <<>>
  /\ Head(fn_arg.reply.text) = TokFenceJson
  /\ DocumentOf(fn_arg.reply.text).kind = "object"
  /\ DocumentOf(fn_arg.reply.text).businesses.kind = "array"
  /\ Len(DocumentOf(fn_arg.reply.text).businesses.items) = 2
  /\ Len(fn_out) = 1
  /\ fn_out[1].email = "info@pho.vn"

\* is the link hosted on the search engine; on its redirect path with a
\* destination parameter
HostedOnEngine(url) ==
  Len(url) >= 2 /\ StartsWithHttp(url) /\ url[2] = "duckduckgo.com"
IsRedirect(url) ==
  HostedOnEngine(url) /\ Len(url) >= 5 /\ url[3] = "/y.js?" /\ url[4] = "uddg="

\* the URLs the claim expects for the links, in order
RECURSIVE ExpectedUrls(_)
ExpectedUrls(links) ==
  IF links = <<>> THEN <<>>
  ELSE LET url == Head(links)
           rest == ExpectedUrls(Tail(links))
       IN  IF url = NoHref THEN rest
           ELSE IF IsRedirect(url) THEN <<Uddg(url)>> \o rest
           ELSE IF StartsWith(url, "#") \/ StartsWith(url, "javascript:")
                   \/ HostedOnEngine(url) THEN rest
           ELSE IF StartsWithHttp(url) THEN <<url>> \o rest
           ELSE rest

\* C25: of the result links, one on the search engine's redirect path with
\* a destination parameter is replaced by its decoded destination; a
\* fragment link, a javascript link and any other link hosted on the search
\* engine is discarded; every other http(s) link is kept unchanged; the
\* URLs come in result order, at most max_results of them.
C25_UrlResolution ==
  (fn = "search_results" /\ fn_pc = "returned") =>
    LET expected == ExpectedUrls(fn_arg.links)
    IN  fn_out = SubSeq(expected, 1, Min(fn_arg.max_results, Len(expected)))

\* the valid phone numbers written in a text, normalized, each once, in the
\* order of their first appearance
RECURSIVE NumbersIn(_, _)
NumbersIn(ps, found) ==
  IF ps = <<>> THEN found
  ELSE LET number == CleanPhone(Head(ps))
           seen == {found[i] : i \in 1..Len(found)}
       IN  NumbersIn(Tail(ps),
                     IF Head(ps) # DateText /\ number \notin seen
                     THEN Append(found, number) ELSE found)

\* C23: for a text that contains k distinct valid Vietnamese phone numbers
\* _extract_all_phones returns exactly those k numbers, normalized, each
\* once, in the order in which they first appear in the text, whichever
\* pattern matched them.
C23_PhonesInTextOrder ==
  (fn = "extract_all_phones" /\ fn_pc = "returned") =>
    fn_out = NumbersIn(fn_arg, <<>>)
====
